---- MODULE Spec2Model ----
(***************************************************************************)
(* Model of the sync engine of oushima/rsync (src-tauri/src).              *)
(*                                                                         *)
(* The module holds several specifications over one set of variables:      *)
(*   SpecCopy    - sync_file_static's pre-copy capture followed by         *)
(*                 copy_file_atomic / copy_file_with_progress on one file  *)
(*                 (file_ops.rs), with a concurrent writer to the source.  *)
(*   SpecPersist - TransferStateManager::persist_state on the state        *)
(*                 directory, with process crashes and power loss.         *)
(*   SpecCtl     - the dispatch loop of sync_files and of the resumed      *)
(*                 sync, its file workers and the pause / resume / cancel  *)
(*                 calls; FairSpecCtl adds the scheduling of the runtime.  *)
(*   SpecSync    - sync_files over a source and a destination tree,        *)
(*                 interrupted and then resumed.                           *)
(*   SpecWait    - a task in TransferControl::wait_for_resume against the  *)
(*                 pause / resume / cancel calls; FairSpecWait adds the    *)
(*                 scheduling of the runtime.                              *)
(*   SpecRun     - sync_files run to its end, once and again, over a       *)
(*                 source and a destination tree, with its summary.        *)
(*   SpecMgr     - the states map, the state files and the controls map    *)
(*                 under the calls of the engine and a restart.            *)
(*   SpecRecord  - one TransferState under the calls of sync_files, its    *)
(*                 workers and resume_interrupted_transfer.                *)
(*   SpecDelta   - detect_delta_detailed and the decision of               *)
(*                 sync_file_static on one file.                           *)
(*   SpecTemp    - atomic copies of concurrent syncs into one tree.        *)
(*   SpecChan    - the progress channel of one file copy.                  *)
(*   SpecVol     - the volume watcher: the map of transfers to volumes and *)
(*                 the poll with its accessibility probe.                  *)
(* Each specification leaves the variables of the other parts unchanged.   *)
(***************************************************************************)
EXTENDS Naturals, Integers, Sequences, FiniteSets, TLC

VARIABLES
    \* ---- copy engine (file_ops.rs) ----
    srcData,        \* content of the source file, one element per buffer
    srcMtime,       \* modification time of the source file (a tick count)
    dstFile,        \* the file at the destination path D
    tmpFile,        \* the file at D + ".rsync-tmp"
    dst0,           \* content of D when the copy started
    tmp0,           \* content of the temp path when the copy started
    copt,           \* CopyOptions of the running copy
    cpc,            \* position of the copy in its code
    bytes_copied,   \* bytes_copied of copy_file_with_progress (in buffers)
    copyResult,     \* what copy_file_atomic returned
    modInWindow,    \* source was modified after the capture, before the verification
    verifyReached,  \* the copy reached the verification of step 9
    \* ---- state directory (transfer_state.rs) ----
    inode,          \* inode -> [ver, vlen, dlen]: record version, bytes written, bytes on disk
    dirV,           \* the state directory as the running system sees it: name -> inode
    dirD,           \* the state directory as it is on disk
    memVer,         \* version of the in-memory TransferState
    ppc,            \* position of persist_state in its code
    \* ---- orchestrator: dispatch loop, workers, TransferControl (sync_engine.rs) ----
    mode,           \* "sync" (sync_files) or "resume" (resume_sync_with_state)
    max_concurrent_files,  \* options.max_concurrent_files
    paused,         \* TransferControl.paused
    cancelled,      \* TransferControl.cancelled
    dpc,            \* position of the orchestrating task
    nextFile,       \* index of the regular file the dispatch loop is at
    permits,        \* free permits of the semaphore
    workers,        \* running file workers: position in their code -> how many
    tstatus,        \* TransferState.status
    syncResult,     \* what the orchestrating call returned
    ctlCalls,       \* pause/resume/cancel calls made so far
    cancelNext,     \* nextFile when the cancelled flag was set (0: not set)
    cancelDpc,      \* dpc when the cancelled flag was set
    cbAfterCancel,  \* a progress callback invoked after the cancel returned true
    \* ---- one transfer over a source and a destination tree (sync_engine.rs) ----
    options,        \* SyncOptions given to sync_files
    source,         \* source tree: relative path -> size of the file in blocks
    unreadable,     \* source entries whose get_file_info fails during a scan
    dest,           \* destination tree: relative path -> file
    temps,          \* the ".rsync-tmp" siblings in the destination tree
    dest0,          \* the destination tree when sync_files was called
    state,          \* the TransferState of the transfer, as persisted
    scan,           \* ScanResult of the running call: manifest and scan_complete
    pending,        \* files the dispatch loop has not handed to a worker yet
    cur,            \* the copy in progress: path, bytes_copied, atomic or not
    summary,        \* errors of the SyncResult_ and what the call returned
    interrupt,      \* "none", or "cancel": the cancelled flag of the control is set
    phase,          \* "sync": sync_files; "resume": resume_interrupted_transfer
    tpc,            \* position of the running call in its code
    swept,          \* destination entries the orphan sweep deleted
    \* ---- a task in TransferControl::wait_for_resume (sync_engine.rs 190-200) ----
    wpc,            \* position of the waiting task in wait_for_resume
    upc,            \* position of the caller of resume() / cancel()
    lostWakeup,     \* notify_waiters ran between the waiter's check and its notified()
    \* ---- runs of sync_files to their end (sync_engine.rs 469-728) ----
    unlinked,       \* source files removed by a Move
    run,            \* which call of sync_files on the pair of trees this is
    \* ---- TransferStateManager and the controls map of the engine ----
    states,         \* id -> the shared record; present: it is in the states map
    stateFiles,     \* id -> what <id>.json in the state directory holds
    controls,       \* ids with an entry in SyncEngine::controls
    wk,             \* id -> position of the task that executes the transfer
    held,           \* ids of which a callback holds the record it looked up
    discarded,      \* ids for which discard_transfer has returned
    boots,          \* restarts of the process so far
    mpc,            \* position of the caller of get_interrupted_transfers
    listed,         \* ids get_interrupted_transfers returned
    older,          \* id -> the execution of id that a later resume found running
    \* ---- one TransferState under the calls of the engine (transfer_state.rs) ----
    rec,            \* the record: counters, status, completed_at, file records
    rscan,          \* path -> size of the entry in the scan of sync_files
    rwork,          \* the file worker that copies: path, bytes reported, source length
    rpc,            \* "new", "sync", "resume", "ended"
    rdone,          \* files the running call need not hand to a worker any more
    resumes,        \* calls of resume_interrupted_transfer so far
    linkDest,       \* what is at the destination path of the source's symlink
    rdry,           \* options.dry_run of the sync_files call
    rpub,           \* the files whose copy was renamed into place at the destination
    \* ---- sync_file_static's decision on one file (sync_engine.rs 1093-1150) ----
    din,            \* the source entry, the destination file and the options
    ddelta,         \* the DeltaInfo detect_delta_detailed returned
    daction,        \* what the worker does with the file
    qpc,            \* "input", "delta", "decided"
    \* ---- concurrent atomic copies into one destination tree (file_ops.rs) ----
    tfs,            \* name -> the entry of the destination tree under that name
    tcp,            \* copier -> the copy_file_atomic call it runs
    tsync,          \* sync -> "idle" or "running": a sync_files call into the tree
    \* ---- the progress channel of one file copy (sync_engine.rs 1217-1299) ----
    chanLen,        \* events in the channel
    cbpc,           \* position of the copy worker: "copy", "lock", "send", "done"
    rlock,          \* holder of the write lock of the record: "none", "worker", "other"
    cpaused,        \* the paused flag of the transfer's control
    cstatus,        \* status of the transfer record, in memory and in <id>.json
    upos,           \* a caller of pause_transfer / resume_transfer: "idle", "pause", "resume"
    \* ---- the volume watcher (volume_watcher.rs) ----
    known_volumes,          \* mount points of the volumes of the last scan
    transfer_to_volumes,    \* TransferVolumeMap: transfer id -> mount points
    volume_to_transfers,    \* TransferVolumeMap: mount point -> transfer ids
    vprobe,                 \* mount point -> what read_dir returned in the last probe
    vevents                 \* mount points of the Inaccessible events of the last probe

copyVars == <<srcData, srcMtime, dstFile, tmpFile, dst0, tmp0, copt, cpc,
              bytes_copied, copyResult, modInWindow, verifyReached>>

persistVars == <<inode, dirV, dirD, memVer, ppc>>

ctlVars == <<mode, max_concurrent_files, paused, cancelled, dpc, nextFile,
             permits, workers, tstatus, syncResult, ctlCalls, cancelNext,
             cancelDpc, cbAfterCancel>>

treeVars == <<options, source, unreadable, dest, temps, dest0, state, scan,
              pending, cur, summary, interrupt, phase, tpc, swept>>

mgrVars == <<states, stateFiles, controls, wk, held, discarded, boots, mpc, listed,
             older>>

recVars == <<rec, rscan, rwork, rpc, rdone, resumes, linkDest, rdry, rpub>>

deltaVars == <<din, ddelta, daction, qpc>>

tempVars == <<tfs, tcp, tsync>>

chanVars == <<chanLen, cbpc, rlock, cpaused, cstatus, upos>>

volVars == <<known_volumes, transfer_to_volumes, volume_to_transfers, vprobe, vevents>>

moreVars == <<recVars, deltaVars, tempVars, chanVars, volVars>>

restVars == <<wpc, upc, lostWakeup, unlinked, run, mgrVars, moreVars>>

vars == <<copyVars, persistVars, ctlVars, treeVars, restVars>>

(***************************************************************************)
(* Bounds                                                                  *)
(***************************************************************************)
MaxLen == 2          \* longest file, in buffers
MaxMods == 2         \* modifications of the source by the concurrent writer
MaxSaves == 3        \* save_state calls on one transfer record
JsonLen == 2         \* length of a serialized record, in write(2) calls
NumFiles == 9        \* regular files of the manifest
FileBuffers == 1     \* buffers of a regular file
MaxCtl == 3          \* pause_transfer / resume_transfer / cancel_transfer calls
MaxBlocks == 6       \* largest source file, in blocks of 256 KiB
MaxRuns == 2         \* calls of sync_files in a row on one pair of trees

Byte == {1, 2}
None == 0 - 1

RECURSIVE SeqsUpTo(_)
SeqsUpTo(n) == IF n = 0 THEN {<<>>}
               ELSE SeqsUpTo(n - 1) \cup [1..n -> Byte]

Contents == SeqsUpTo(MaxLen)

NoFile == [exists |-> FALSE, data |-> <<>>]
FileOf(d) == [exists |-> TRUE, data |-> d]

(***************************************************************************)
(* compute_file_hash: xxh3 of the whole content.  The hash is modelled as  *)
(* a collision-free number computed from the bytes (the length is part of  *)
(* it, so a prefix never hashes like the whole).                           *)
(***************************************************************************)
RECURSIVE HashFrom(_, _)
HashFrom(s, acc) == IF s = <<>> THEN acc
                    ELSE HashFrom(Tail(s), acc * 3 + Head(s))

compute_file_hash(s) == HashFrom(s, 0)

(***************************************************************************)
(* The state directory: <uuid>.json and <uuid>.tmp of one transfer.        *)
(* A file is an inode; a directory maps its two names to inodes.  What the *)
(* running system sees (page cache) and what is on disk differ until the   *)
(* kernel writes back or an fsync forces it.                               *)
(***************************************************************************)
Inodes == 1..4
NoInode == 0
BlankInode == [ver |-> 0, vlen |-> 0, dlen |-> 0]
EmptyDir == [json |-> NoInode, tmp |-> NoInode]

PersistIdle ==
    /\ inode = [i \in Inodes |-> BlankInode]
    /\ dirV = EmptyDir
    /\ dirD = EmptyDir
    /\ memVer = 0
    /\ ppc = "idle"

(***************************************************************************)
(* Orchestrator state.  The workers of one transfer run the same code on   *)
(* different files; they are kept as a count per position in that code.    *)
(***************************************************************************)
WorkerKinds == {<<"start", FileBuffers>>}
               \cup {<<"copy", k>> : k \in 0..FileBuffers}
               \cup {<<"cbpause", k>> : k \in 0..(FileBuffers - 1)}

NoWorkers == [k \in WorkerKinds |-> 0]

RECURSIVE SumOver(_, _)
SumOver(w, ks) == IF ks = {} THEN 0
                  ELSE LET k == CHOOSE x \in ks : TRUE
                       IN  w[k] + SumOver(w, ks \ {k})

\* workers that hold a permit
Running(w) == SumOver(w, WorkerKinds)

CtlIdle ==
    /\ mode = "sync"
    /\ max_concurrent_files = 0
    /\ paused = FALSE
    /\ cancelled = FALSE
    /\ dpc = "returned"
    /\ nextFile = 1
    /\ permits = 0
    /\ workers = NoWorkers
    /\ tstatus = "Pending"
    /\ syncResult = "none"
    /\ ctlCalls = 0
    /\ cancelNext = 0
    /\ cancelDpc = "none"
    /\ cbAfterCancel = FALSE

(***************************************************************************)
(* Trees, exclusion patterns and the transfer record                       *)
(*                                                                         *)
(* A relative path is the sequence of its components.  File sizes and      *)
(* offsets count blocks of VERIFICATION_BLOCK_SIZE (256 KiB); block i of a *)
(* source file holds the value i, and 0 is a block never written (a hole). *)
(***************************************************************************)
PathA == <<"a">>
PathB == <<"cache", "b">>
PathOld == <<"old">>
Paths == {PathA, PathB}               \* entries of the source tree
DestPaths == Paths \cup {PathOld}     \* PathOld has no source counterpart

BLOCKS_TO_VERIFY == 4

\* the bytes of the source file of n blocks
SrcData(n) == [i \in 1..n |-> i]

\* globset: Glob::new(pattern).is_match(s); a pattern is a sequence of
\* components, "*" standing for a wildcard, which also runs across separators
RECURSIVE GlobMatch(_, _)
GlobMatch(pat, s) ==
    IF pat = <<>> THEN s = <<>>
    ELSE IF s = <<>> THEN FALSE
    ELSE IF Head(pat) = "*"
         THEN GlobMatch(Tail(pat), Tail(s)) \/ GlobMatch(pat, Tail(s))
         ELSE Head(pat) = Head(s) /\ GlobMatch(Tail(pat), Tail(s))

\* GlobSet::is_match
is_match(matcher, s) == \E pat \in matcher : GlobMatch(pat, s)

\* sync_engine.rs 439-467; the matcher of no pattern is None
should_exclude(path, matcher) ==
    /\ matcher # {}
    /\ \/ is_match(matcher, path)
       \/ is_match(matcher, <<path[Len(path)]>>)
       \/ \E i \in 1..Len(path) : is_match(matcher, <<path[i]>>)

\* transfer_state.rs 67-73
get_resume_offset(last_verified_offset) ==
    IF last_verified_offset > BLOCKS_TO_VERIFY
    THEN last_verified_offset - BLOCKS_TO_VERIFY
    ELSE 0

\* FileTransferState::new (transfer_state.rs 48-60); NoState: no entry
NoState == [tracked |-> FALSE, status |-> "Pending", bytes_transferred |-> 0,
            last_verified_offset |-> 0]
NewFileState == [NoState EXCEPT !.tracked = TRUE]

\* transfer_state.rs 132-141
update_file_progress(fs, n) ==
    IF fs.tracked
    THEN [fs EXCEPT !.bytes_transferred = n, !.last_verified_offset = n]
    ELSE fs

\* transfer_state.rs 143-152
complete_file(fs, total) ==
    IF fs.tracked
    THEN [fs EXCEPT !.bytes_transferred = total, !.status = "Completed"]
    ELSE fs

\* transfer_state.rs 154-161
fail_file(fs) == IF fs.tracked THEN [fs EXCEPT !.status = "Failed"] ELSE fs

\* transfer_state.rs 163-169
skip_file(fs) == IF fs.tracked THEN [fs EXCEPT !.status = "Completed"] ELSE fs

\* a write of the blocks src[off+1 .. off+n] at offset off of a file whose
\* content is d: a file shorter than off is extended by a hole
WriteAt(d, off, n, src) ==
    [i \in 1..(IF Len(d) > off + n THEN Len(d) ELSE off + n) |->
        IF i > off /\ i <= off + n THEN src[i]
        ELSE IF i <= Len(d) THEN d[i] ELSE 0]

NoCopy == [path |-> <<>>, bytes_copied |-> 0, atomic |-> FALSE]
NoScan == [files |-> {}, complete |-> TRUE]
AllGone == [p \in DestPaths |-> NoFile]

\* SyncOptions of resume_interrupted_transfer (sync_engine.rs 261-278)
ResumeOptions == [exclude_patterns |-> {}, delete_orphans |-> FALSE,
                  dry_run |-> FALSE, buffer_size |-> 1]

TreeIdle ==
    /\ options = ResumeOptions
    /\ source = [p \in Paths |-> 0]
    /\ unreadable = {}
    /\ dest = AllGone
    /\ temps = AllGone
    /\ dest0 = AllGone
    /\ state = [status |-> "Pending", files_failed |-> 0,
                files |-> [p \in Paths |-> NoState]]
    /\ scan = NoScan
    /\ pending = {}
    /\ cur = NoCopy
    /\ summary = [errors |-> {}, result |-> "none"]
    /\ interrupt = "none"
    /\ phase = "sync"
    /\ tpc = "returned"
    /\ swept = {}

MaxIds == 2
MaxBoots == 1

Ids == 1..MaxIds

\* transfer_state.rs 100-120: a record; present = FALSE: not in the states map
NoRecord == [present |-> FALSE, status |-> "none", bytes_transferred |-> 0]

\* the state manager is empty and nothing executes
MgrIdle ==
    /\ states = [id \in Ids |-> NoRecord]
    /\ stateFiles = [id \in Ids |-> NoRecord]
    /\ controls = {}
    /\ wk = [id \in Ids |-> "none"]
    /\ held = {}
    /\ discarded = {}
    /\ boots = 0
    /\ mpc = "idle"
    /\ listed = {}
    /\ older = [id \in Ids |-> "none"]

MaxSize == 2
MaxResumes == 2

\* two regular files and a symlink of the source
RegularFiles == {"f", "g"}
Symlinks == {"l"}
RecPaths == RegularFiles \cup Symlinks

\* TransferState::new (transfer_state.rs 101-124)
NewRecord ==
    [status |-> "Pending", total_bytes |-> 0, bytes_transferred |-> 0,
     total_files |-> 0, files_completed |-> 0, files_failed |-> 0,
     files_skipped |-> 0, completed_at |-> "None",
     files |-> [p \in RecPaths |->
                   [tracked |-> FALSE, status |-> "Pending", bytes_transferred |-> 0,
                    last_verified_offset |-> 0, total_bytes |-> 0]]]

NoWork == [path |-> "", copied |-> 0, len |-> 0]

\* no record has been created
RecIdle ==
    /\ rec = NewRecord
    /\ rscan = [p \in RecPaths |-> 1]
    /\ rwork = NoWork
    /\ rpc = "ended"
    /\ rdone = {}
    /\ resumes = 0
    /\ linkDest = "absent"
    /\ rdry = FALSE
    /\ rpub = {}

MaxTime == 2

NoDelta == [status |-> "none", source_newer |-> FALSE, source_older |-> FALSE,
            size_differs |-> FALSE]

\* a source entry (modified, size), the destination file and the options
DeltaInputs ==
    [smtime : 1..MaxTime, ssize : 1..MaxSize,
     exists : BOOLEAN, dmtime : 1..MaxTime, dsize : 1..MaxSize,
     skip_existing : BOOLEAN, overwrite_newer : BOOLEAN, overwrite_older : BOOLEAN,
     conflict_resolution : {"Skip", "Ask", "Overwrite", "Rename"}]

\* no file is being decided on
DeltaIdle ==
    /\ din = [smtime |-> 1, ssize |-> 1, exists |-> FALSE, dmtime |-> 1, dsize |-> 1,
              skip_existing |-> FALSE, overwrite_newer |-> FALSE,
              overwrite_older |-> FALSE, conflict_resolution |-> "Skip"]
    /\ ddelta = NoDelta
    /\ daction = "none"
    /\ qpc = "decided"

MaxCopiers == 2
MaxSyncs == 2

Copiers == 1..MaxCopiers
SyncIds == 1..MaxSyncs

\* file_ops.rs 38: TEMP_FILE_EXTENSION
TEMP_FILE_EXTENSION == ".rsync-tmp"

\* file_ops.rs 50-56: the extension is appended to the file name; a name is
\* the sequence of the pieces it is the concatenation of
get_temp_path(dst) == dst \o <<TEMP_FILE_EXTENSION>>

\* relative paths of the source files: "x", "x.rsync-tmp" and "y"
SourceNames == {<<"x">>, <<"x", TEMP_FILE_EXTENSION>>, <<"y">>}
TreeNames == SourceNames \cup {get_temp_path(n) : n \in SourceNames}

Absent == [kind |-> "absent", by |-> 0, of |-> <<>>]
NoCopier == [sync |-> 0, path |-> <<>>]

\* no copy runs into the destination tree
TempIdle ==
    /\ tfs = [n \in TreeNames |-> Absent]
    /\ tcp = [c \in Copiers |-> NoCopier]
    /\ tsync = [y \in SyncIds |-> "idle"]

\* sync_engine.rs 1217: tokio::sync::mpsc::channel::<ProgressEvent>(64)
PROGRESS_CHANNEL_CAPACITY == 64

\* no file is being copied
ChanIdle ==
    /\ chanLen = 0
    /\ cbpc = "done"
    /\ rlock = "none"
    /\ cpaused = FALSE
    /\ cstatus = "Running"
    /\ upos = "idle"

\* two volumes, one mounted inside the other, and the paths of transfers
Mounts == {<<"ext">>, <<"ext", "inner">>}
VolPaths == {<<"ext", "s">>, <<"ext", "inner", "d">>, <<"home", "d">>}

\* what std::fs::read_dir returns on a mount point
ReadDirResults == {"Ok", "EIO", "ENODEV", "EACCES", "ENOENT"}

\* the watcher holds no transfer and has probed nothing
VolIdle ==
    /\ known_volumes = {}
    /\ transfer_to_volumes = <<>>
    /\ volume_to_transfers = <<>>
    /\ vprobe = [m \in Mounts |-> "unchecked"]
    /\ vevents = {}

MoreIdle == RecIdle /\ DeltaIdle /\ TempIdle /\ ChanIdle /\ VolIdle

\* no task waits in wait_for_resume, no resume() or cancel() is under way
RestIdle ==
    /\ wpc = "proceeded"
    /\ upc = "idle"
    /\ lostWakeup = FALSE
    /\ unlinked = {}
    /\ run = 1
    /\ MgrIdle
    /\ MoreIdle

(***************************************************************************)
(* SpecCopy: one fresh copy (resume_offset = 0) of one file.               *)
(*   sync_file_static captures mtime and hash (sync_engine.rs 1175-1185),  *)
(*   copy_file_atomic (file_ops.rs 761-841) runs copy_file_with_progress   *)
(*   (609-743) on the temp path and renames.                               *)
(***************************************************************************)
InCopy == cpc \notin {"idle", "done"}

\* The concurrent writer's window of the integrity protocol: after the
\* capture of the mtime, before the post-copy verification has run.
CaptureWindow == {"capture_hash", "precheck", "cleanup", "open", "loop",
                  "flush", "verify_mtime"}

\* mutant of RemoveTemp: the temp file is left behind on failure
KeepTemp(f) == f

\* file_ops.rs 825, 832: let _ = fs::remove_file(&temp_path)
RemoveTemp(f) == NoFile

\* mutant of SourceMtimeUnchanged: step 9a is skipped
SourceMtimeNotChecked(expected, current) == TRUE

\* file_ops.rs 715-724: the copy passes step 9a
SourceMtimeUnchanged(expected, current) ==
    expected = None \/ current = expected

\* file_ops.rs 728-739: the copy passes step 9b
HashesAgree(pre, src, dst) ==
    LET src_hash == IF pre # None THEN pre ELSE compute_file_hash(src)
    IN  src_hash = compute_file_hash(dst)

\* copy_file_atomic's Err arms (file_ops.rs 823-839): the temp file is
\* removed and the error returned
CopyFail(err) ==
    /\ tmpFile' = RemoveTemp(tmpFile)
    /\ copyResult' = err
    /\ cpc' = "done"
    /\ UNCHANGED <<srcData, srcMtime, dstFile, dst0, tmp0, copt, bytes_copied,
                   modInWindow, verifyReached>>

\* a failure before copy_file_atomic has touched the temp path (776-792)
PrecheckFail(err) ==
    /\ copyResult' = err
    /\ cpc' = "done"
    /\ UNCHANGED <<srcData, srcMtime, dstFile, tmpFile, dst0, tmp0, copt,
                   bytes_copied, modInWindow, verifyReached>>

CopyGoto(next) ==
    /\ cpc' = next
    /\ UNCHANGED <<srcData, srcMtime, dstFile, dst0, tmp0, copyResult, modInWindow>>

\* sync_engine.rs 1175-1180: mtime of the source before the copy (.ok())
CaptureMtime ==
    /\ cpc = "capture_mtime"
    /\ \E got \in BOOLEAN :
         copt' = [copt EXCEPT !.source_mtime_before_copy =
                    IF copt.verify_integrity /\ got THEN srcMtime ELSE None]
    /\ CopyGoto("capture_hash")
    /\ UNCHANGED <<tmpFile, bytes_copied, verifyReached>>

\* sync_engine.rs 1181: hash of the source before the copy (.ok())
CaptureHash ==
    /\ cpc = "capture_hash"
    /\ \E got \in BOOLEAN :
         copt' = [copt EXCEPT !.pre_copy_source_hash =
                    IF copt.verify_integrity /\ got
                    THEN compute_file_hash(srcData) ELSE None]
    /\ CopyGoto("precheck")
    /\ UNCHANGED <<tmpFile, bytes_copied, verifyReached>>

\* file_ops.rs 776-792: metadata of the source, disk-free pre-check
AtomicPrecheck ==
    /\ cpc = "precheck"
    /\ \/ PrecheckFail("SourceNotFound")
       \/ PrecheckFail("DiskFull")
       \/ /\ CopyGoto("cleanup")
          /\ UNCHANGED <<tmpFile, copt, bytes_copied, verifyReached>>

\* file_ops.rs 795-804: cleanup_temp_files(dest), create the parent
AtomicCleanup ==
    /\ cpc = "cleanup"
    /\ \/ /\ tmpFile' = NoFile
          /\ CopyGoto("open")
          /\ UNCHANGED <<copt, bytes_copied, verifyReached>>
       \/ /\ tmpFile' = NoFile
          /\ copyResult' = "Io"
          /\ cpc' = "done"
          /\ UNCHANGED <<srcData, srcMtime, dstFile, dst0, tmp0, copt, bytes_copied,
                         modInWindow, verifyReached>>

\* file_ops.rs 618-644: open the source, create the temp file
CopyOpen ==
    /\ cpc = "open"
    /\ \/ CopyFail("Io")
       \/ /\ tmpFile' = FileOf(<<>>)
          /\ bytes_copied' = 0
          /\ CopyGoto("loop")
          /\ UNCHANGED <<copt, verifyReached>>

\* file_ops.rs 659-696: one turn of the copy loop; the callback's answer
\* is the caller's (false = cancelled)
CopyBuffer ==
    /\ cpc = "loop"
    /\ \/ CopyFail("Io")
       \/ /\ bytes_copied >= Len(srcData)
          /\ CopyGoto("flush")
          /\ UNCHANGED <<tmpFile, copt, bytes_copied, verifyReached>>
       \/ /\ bytes_copied < Len(srcData)
          /\ \E should_continue \in BOOLEAN :
               /\ tmpFile' = FileOf(Append(tmpFile.data, srcData[bytes_copied + 1]))
               /\ bytes_copied' = bytes_copied + 1
               /\ IF should_continue
                  THEN /\ cpc' = "loop"
                       /\ copyResult' = copyResult
                  ELSE \* 693-695, then copy_file_atomic 830-832
                       /\ cpc' = "cancelled"
                       /\ copyResult' = copyResult
               /\ UNCHANGED <<srcData, srcMtime, dstFile, dst0, tmp0, copt,
                              modInWindow, verifyReached>>

\* file_ops.rs 693-695 returned TransferCancelled: copy_file_atomic 830-838
CopyCancelled ==
    /\ cpc = "cancelled"
    /\ CopyFail("TransferCancelled")

\* file_ops.rs 698-710: flush, sync_all, metadata on the temp file
CopyFlush ==
    /\ cpc = "flush"
    /\ \/ CopyFail("Io")
       \/ /\ CopyGoto(IF copt.verify_integrity THEN "verify_mtime" ELSE "rename")
          /\ UNCHANGED <<tmpFile, copt, bytes_copied, verifyReached>>

\* file_ops.rs 712-724: step 9a
VerifyMtime ==
    /\ cpc = "verify_mtime"
    /\ verifyReached' = TRUE
    /\ IF SourceMtimeUnchanged(copt.source_mtime_before_copy, srcMtime)
       THEN /\ CopyGoto("verify_hash")
            /\ UNCHANGED <<tmpFile, copt, bytes_copied>>
       ELSE /\ tmpFile' = RemoveTemp(tmpFile)
            /\ copyResult' = "SourceModifiedDuringCopy"
            /\ cpc' = "done"
            /\ UNCHANGED <<srcData, srcMtime, dstFile, dst0, tmp0, copt, bytes_copied,
                           modInWindow>>

\* file_ops.rs 726-740: step 9b
VerifyHash ==
    /\ cpc = "verify_hash"
    /\ \/ CopyFail("Io")
       \/ /\ HashesAgree(copt.pre_copy_source_hash, srcData, tmpFile.data)
          /\ CopyGoto("rename")
          /\ UNCHANGED <<tmpFile, copt, bytes_copied, verifyReached>>
       \/ /\ ~HashesAgree(copt.pre_copy_source_hash, srcData, tmpFile.data)
          /\ CopyFail("HashMismatch")

\* file_ops.rs 809-828: rename temp -> dest, parent-directory fsync
AtomicRename ==
    /\ cpc = "rename"
    /\ \/ CopyFail("Io")
       \/ /\ dstFile' = tmpFile
          /\ tmpFile' = NoFile
          /\ copyResult' = "Ok"
          /\ cpc' = "done"
          /\ UNCHANGED <<srcData, srcMtime, dst0, tmp0, copt, bytes_copied,
                         modInWindow, verifyReached>>

\* another process writes the source file while the copy runs
SourceModify ==
    /\ InCopy
    /\ srcMtime < MaxMods
    /\ \E d \in Contents \ {srcData} : srcData' = d
    /\ srcMtime' = srcMtime + 1
    /\ modInWindow' = (modInWindow \/ cpc \in CaptureWindow)
    /\ UNCHANGED <<dstFile, tmpFile, dst0, tmp0, copt, cpc, bytes_copied,
                   copyResult, verifyReached>>

InitCopy ==
    /\ srcData \in Contents
    /\ srcMtime = 0
    /\ dstFile \in {NoFile, FileOf(<<1>>)}
    /\ tmpFile \in {NoFile, FileOf(<<2>>)}
    /\ dst0 = dstFile
    /\ tmp0 = tmpFile
    /\ copt \in [verify_integrity : BOOLEAN,
                 pre_copy_source_hash : {None},
                 source_mtime_before_copy : {None}]
    /\ cpc = "capture_mtime"
    /\ bytes_copied = 0
    /\ copyResult = "none"
    /\ modInWindow = FALSE
    /\ verifyReached = FALSE
    /\ PersistIdle
    /\ CtlIdle
    /\ TreeIdle
    /\ RestIdle

NextCopy ==
  /\ UNCHANGED <<persistVars, ctlVars, treeVars, restVars>>
  /\
    \/ CaptureMtime
    \/ CaptureHash
    \/ AtomicPrecheck
    \/ AtomicCleanup
    \/ CopyOpen
    \/ CopyBuffer
    \/ CopyCancelled
    \/ CopyFlush
    \/ VerifyMtime
    \/ VerifyHash
    \/ AtomicRename
    \/ SourceModify

SpecCopy == InitCopy /\ [][NextCopy]_vars

Referenced(dv, dd) == {dv.json, dv.tmp, dd.json, dd.tmp} \ {NoInode}

\* inodes no directory names any more are freed
Collect(ino, dv, dd) ==
    [i \in Inodes |-> IF i \in Referenced(dv, dd) THEN ino[i] ELSE BlankInode]

FreeInode == CHOOSE i \in Inodes : i \notin Referenced(dirV, dirD)

PersistFrame == UNCHANGED <<copyVars, ctlVars, treeVars, restVars>>

\* a mutation of the record under its write lock, followed by save_state
\* (transfer_state.rs 299-300, 281-285: serde_json::to_string_pretty)
SaveState ==
    /\ ppc = "idle"
    /\ memVer < MaxSaves
    /\ memVer' = memVer + 1
    /\ ppc' = "create"
    /\ UNCHANGED <<inode, dirV, dirD>>
    /\ PersistFrame

\* transfer_state.rs 286, std::fs::write: open(create, truncate) of <uuid>.tmp
PersistCreate ==
    /\ ppc = "create"
    /\ \/ /\ ppc' = "idle"       \* the open failed: persist_state returns Err
          /\ UNCHANGED <<inode, dirV, dirD, memVer>>
       \/ /\ dirV.tmp = NoInode
          /\ inode' = [inode EXCEPT ![FreeInode] =
                         [ver |-> memVer, vlen |-> 0, dlen |-> 0]]
          /\ dirV' = [dirV EXCEPT !.tmp = FreeInode]
          /\ ppc' = "write"
          /\ UNCHANGED <<dirD, memVer>>
       \/ /\ dirV.tmp # NoInode
          /\ inode' = [inode EXCEPT ![dirV.tmp] =
                         [ver |-> memVer, vlen |-> 0, dlen |-> 0]]
          /\ ppc' = "write"
          /\ UNCHANGED <<dirV, dirD, memVer>>
    /\ PersistFrame

\* transfer_state.rs 286, std::fs::write: write_all, one write(2) at a time;
\* the file is closed without fsync
PersistWrite ==
    /\ ppc = "write"
    /\ \/ /\ inode[dirV.tmp].vlen < JsonLen
          /\ \/ /\ inode' = [inode EXCEPT ![dirV.tmp].vlen = @ + 1]
                /\ ppc' = "write"
             \/ /\ ppc' = "idle"  \* the write failed: persist_state returns Err
                /\ UNCHANGED inode
       \/ /\ inode[dirV.tmp].vlen = JsonLen
          /\ ppc' = "rename"
          /\ UNCHANGED inode
    /\ UNCHANGED <<dirV, dirD, memVer>>
    /\ PersistFrame

\* transfer_state.rs 287: std::fs::rename(&temp_file, &state_file)
PersistRename ==
    /\ ppc = "rename"
    /\ \/ /\ ppc' = "idle"       \* the rename failed: persist_state returns Err
          /\ UNCHANGED <<inode, dirV, dirD, memVer>>
       \/ /\ dirV' = [json |-> dirV.tmp, tmp |-> NoInode]
          /\ inode' = Collect(inode, dirV', dirD)
          /\ ppc' = "sync"
          /\ UNCHANGED <<dirD, memVer>>
    /\ PersistFrame

\* transfer_state.rs 292-296: sync_parent_directory, its error only logged
PersistSyncDir ==
    /\ ppc = "sync"
    /\ \/ /\ dirD' = dirV
          /\ inode' = Collect(inode, dirV, dirD')
       \/ UNCHANGED <<dirD, inode>>
    /\ ppc' = "idle"
    /\ UNCHANGED <<dirV, memVer>>
    /\ PersistFrame

\* the kernel writes dirty pages of a file to the disk
WritebackData ==
    /\ \E i \in Referenced(dirV, dirD) :
         /\ inode[i].dlen < inode[i].vlen
         /\ \E n \in (inode[i].dlen + 1)..inode[i].vlen :
              inode' = [inode EXCEPT ![i].dlen = n]
    /\ UNCHANGED <<dirV, dirD, memVer, ppc>>
    /\ PersistFrame

\* the kernel commits the directory's entries to the disk
WritebackDir ==
    /\ dirD # dirV
    /\ dirD' = dirV
    /\ inode' = Collect(inode, dirV, dirD')
    /\ UNCHANGED <<dirV, memVer, ppc>>
    /\ PersistFrame

\* the process dies inside persist_state and is started again
ProcessCrash ==
    /\ ppc # "idle"
    /\ ppc' = "idle"
    /\ UNCHANGED <<inode, dirV, dirD, memVer>>
    /\ PersistFrame

\* power is lost: what was not on the disk is gone
PowerLoss ==
    /\ dirV' = dirD
    /\ inode' = [i \in Inodes |->
                   IF i \in Referenced(dirD, dirD)
                   THEN [inode[i] EXCEPT !.vlen = inode[i].dlen]
                   ELSE BlankInode]
    /\ ppc' = "idle"
    /\ UNCHANGED <<dirD, memVer>>
    /\ PersistFrame

CopyIdle ==
    /\ srcData = <<>>
    /\ srcMtime = 0
    /\ dstFile = NoFile
    /\ tmpFile = NoFile
    /\ dst0 = NoFile
    /\ tmp0 = NoFile
    /\ copt = [verify_integrity |-> FALSE, pre_copy_source_hash |-> None,
               source_mtime_before_copy |-> None]
    /\ cpc = "idle"
    /\ bytes_copied = 0
    /\ copyResult = "none"
    /\ modInWindow = FALSE
    /\ verifyReached = FALSE

InitPersist == PersistIdle /\ CopyIdle /\ CtlIdle /\ TreeIdle /\ RestIdle

NextPersist ==
    \/ SaveState
    \/ PersistCreate
    \/ PersistWrite
    \/ PersistRename
    \/ PersistSyncDir
    \/ WritebackData
    \/ WritebackDir
    \/ ProcessCrash
    \/ PowerLoss

SpecPersist == InitPersist /\ [][NextPersist]_vars

(***************************************************************************)
(* C6 - whatever a reader finds under the name <uuid>.json is a complete   *)
(* serialization of one version of the record, also after a process crash  *)
(* or a power loss at any step of persist_state.                           *)
(***************************************************************************)
C6_NoTornStateFile ==
    dirV.json # NoInode => inode[dirV.json].vlen = JsonLen

(***************************************************************************)
(* SpecCtl: one executing transfer - the orchestrating task of sync_files  *)
(* (sync_engine.rs 574-728) or of resume_sync_with_state (751-925), its    *)
(* file workers, and the user's pause / resume / cancel calls.             *)
(***************************************************************************)
ClampLo == 1
ClampHi == 8
ResumeMaxConcurrent == 4

\* mutant of Clamp: the configured value is used as the permit count
NoClamp(n) == n

\* usize::clamp(1, 8), sync_engine.rs 617 and 807
Clamp(n) == IF n < ClampLo THEN ClampLo ELSE IF n > ClampHi THEN ClampHi ELSE n

\* max_concurrent_files of the options the orchestrating task runs with
\* (resume_interrupted_transfer builds its own: sync_engine.rs 272)
ConfiguredConcurrency ==
    IF mode = "resume" THEN ResumeMaxConcurrent ELSE max_concurrent_files

CtlFrame == UNCHANGED <<copyVars, persistVars, treeVars, restVars>>

\* the transfer's control is in SyncEngine.controls (sync_files never
\* removes it; resume_sync_with_state inserts at 755 and removes at 921)
ControlLive == mode = "sync" \/ dpc \notin {"setup", "returned"}

Put(w, k) == [w EXCEPT ![k] = @ + 1]
Take(w, k) == [w EXCEPT ![k] = @ - 1]

\* mutant of CancelStopsDispatch: the loop head does not look at the flag
CancelIgnoredByDispatch == FALSE

\* sync_engine.rs 632, 817: if control.is_cancelled() { break; }
CancelStopsDispatch == cancelled

\* sync_engine.rs 575-587: create the directories, checking the cancel flag
SyncDirs ==
    /\ mode = "sync" /\ dpc = "dirs"
    /\ IF cancelled
       THEN /\ tstatus' = "Cancelled"
            /\ syncResult' = "TransferCancelled"
            /\ dpc' = "returned"
       ELSE \/ /\ dpc' = "symlinks"
               /\ UNCHANGED <<tstatus, syncResult>>
            \/ /\ syncResult' = "Io"      \* create_directory(..)? failed
               /\ dpc' = "returned"
               /\ UNCHANGED tstatus
    /\ UNCHANGED <<mode, max_concurrent_files, paused, cancelled, nextFile,
                   permits, workers, ctlCalls, cancelNext, cancelDpc,
                   cbAfterCancel>>
    /\ CtlFrame

\* sync_engine.rs 590-618: the symlinks, then the semaphore
SyncSymlinks ==
    /\ mode = "sync" /\ dpc = "symlinks"
    /\ IF cancelled
       THEN /\ tstatus' = "Cancelled"
            /\ syncResult' = "TransferCancelled"
            /\ dpc' = "returned"
            /\ UNCHANGED permits
       ELSE /\ permits' = Clamp(ConfiguredConcurrency)
            /\ dpc' = "check"
            /\ UNCHANGED <<tstatus, syncResult>>
    /\ UNCHANGED <<mode, max_concurrent_files, paused, cancelled, nextFile,
                   workers, ctlCalls, cancelNext, cancelDpc, cbAfterCancel>>
    /\ CtlFrame

\* sync_engine.rs 751-808: control inserted, status Running, the semaphore
ResumeSetup ==
    /\ mode = "resume" /\ dpc = "setup"
    /\ tstatus' = "Running"
    /\ permits' = Clamp(ConfiguredConcurrency)
    /\ dpc' = "check"
    /\ UNCHANGED <<mode, max_concurrent_files, paused, cancelled, nextFile,
                   workers, syncResult, ctlCalls, cancelNext, cancelDpc,
                   cbAfterCancel>>
    /\ CtlFrame

\* sync_engine.rs 630-634, 816-819: head of the dispatch loop
DispatchCheck ==
    /\ dpc = "check"
    /\ dpc' = IF nextFile > NumFiles \/ CancelStopsDispatch THEN "join"
              ELSE IF mode = "sync" THEN "wait" ELSE "acquire"
    /\ UNCHANGED <<mode, max_concurrent_files, paused, cancelled, nextFile,
                   permits, workers, tstatus, syncResult, ctlCalls,
                   cancelNext, cancelDpc, cbAfterCancel>>
    /\ CtlFrame

\* sync_engine.rs 637, 190-200: control.wait_for_resume().await
DispatchWait ==
    /\ dpc = "wait"
    /\ ~(paused /\ ~cancelled)
    /\ dpc' = "acquire"
    /\ UNCHANGED <<mode, max_concurrent_files, paused, cancelled, nextFile,
                   permits, workers, tstatus, syncResult, ctlCalls,
                   cancelNext, cancelDpc, cbAfterCancel>>
    /\ CtlFrame

\* sync_engine.rs 640-691, 821-895: acquire_owned().await, tokio::spawn
DispatchSpawn ==
    /\ dpc = "acquire"
    /\ permits > 0
    /\ permits' = permits - 1
    /\ workers' = Put(workers, <<"start", FileBuffers>>)
    /\ nextFile' = nextFile + 1
    /\ dpc' = "check"
    /\ UNCHANGED <<mode, max_concurrent_files, paused, cancelled, tstatus,
                   syncResult, ctlCalls, cancelNext, cancelDpc, cbAfterCancel>>
    /\ CtlFrame

\* sync_engine.rs 695-697, 899-901: for handle in handles { handle.await }
DispatchJoin ==
    /\ dpc = "join"
    /\ Running(workers) = 0
    /\ dpc' = "final"
    /\ UNCHANGED <<mode, max_concurrent_files, paused, cancelled, nextFile,
                   permits, workers, tstatus, syncResult, ctlCalls,
                   cancelNext, cancelDpc, cbAfterCancel>>
    /\ CtlFrame

\* sync_engine.rs 700-707: the cancellation check after the join
SyncFinal ==
    /\ mode = "sync" /\ dpc = "final"
    /\ IF cancelled
       THEN /\ tstatus' = "Cancelled"
            /\ syncResult' = "TransferCancelled"
            /\ dpc' = "returned"
       ELSE /\ dpc' = "complete"
            /\ UNCHANGED <<tstatus, syncResult>>
    /\ UNCHANGED <<mode, max_concurrent_files, paused, cancelled, nextFile,
                   permits, workers, ctlCalls, cancelNext, cancelDpc,
                   cbAfterCancel>>
    /\ CtlFrame

\* sync_engine.rs 709-727: results, orphan sweep, set_status(Completed)
SyncComplete ==
    /\ mode = "sync" /\ dpc = "complete"
    /\ tstatus' = "Completed"
    /\ syncResult' = "Ok"
    /\ dpc' = "returned"
    /\ UNCHANGED <<mode, max_concurrent_files, paused, cancelled, nextFile,
                   permits, workers, ctlCalls, cancelNext, cancelDpc,
                   cbAfterCancel>>
    /\ CtlFrame

\* sync_engine.rs 903-924: final status, control removed
ResumeFinal ==
    /\ mode = "resume" /\ dpc = "final"
    /\ \/ /\ cancelled
          /\ tstatus' = "Cancelled"
       \/ /\ ~cancelled
          /\ tstatus' \in {"Failed", "Completed"}   \* state.files_failed > 0 or not
    /\ syncResult' = "Ok"
    /\ dpc' = "returned"
    /\ UNCHANGED <<mode, max_concurrent_files, paused, cancelled, nextFile,
                   permits, workers, ctlCalls, cancelNext, cancelDpc,
                   cbAfterCancel>>
    /\ CtlFrame

\* the worker's task ends and drops its permit (sync_engine.rs 662, 835)
WorkerEnds(k) ==
    /\ workers' = Take(workers, k)
    /\ permits' = permits + 1

\* sync_file_static up to the copy (sync_engine.rs 1093-1171): the file is
\* skipped, fails early, or its copy begins
SyncWorkerStart ==
    /\ mode = "sync"
    /\ workers[<<"start", FileBuffers>>] > 0
    /\ \/ WorkerEnds(<<"start", FileBuffers>>)
       \/ /\ workers' = Put(Take(workers, <<"start", FileBuffers>>),
                            <<"copy", FileBuffers>>)
          /\ UNCHANGED permits
    /\ UNCHANGED <<mode, max_concurrent_files, paused, cancelled, dpc,
                   nextFile, tstatus, syncResult, ctlCalls, cancelNext,
                   cancelDpc, cbAfterCancel>>
    /\ CtlFrame

\* the spawned task of the resumed sync up to the copy (sync_engine.rs 837-865)
ResumeWorkerStart ==
    /\ mode = "resume"
    /\ workers[<<"start", FileBuffers>>] > 0
    /\ ~(paused /\ ~cancelled)
    /\ IF cancelled
       THEN WorkerEnds(<<"start", FileBuffers>>)
       ELSE /\ workers' = Put(Take(workers, <<"start", FileBuffers>>),
                              <<"copy", FileBuffers>>)
            /\ UNCHANGED permits
    /\ UNCHANGED <<mode, max_concurrent_files, paused, cancelled, dpc,
                   nextFile, tstatus, syncResult, ctlCalls, cancelNext,
                   cancelDpc, cbAfterCancel>>
    /\ CtlFrame

\* sync_engine.rs 1250-1252: if control.is_cancelled() { return false; }
SyncCallbackSeesCancel == cancelled

\* one turn of the copy loop of a sync_files worker (file_ops.rs 659-696)
\* with the progress callback of sync_engine.rs 1249-1302
SyncWorkerCopy ==
    /\ mode = "sync"
    /\ \E k \in 1..FileBuffers :
         /\ workers[<<"copy", k>>] > 0
         /\ \/ /\ WorkerEnds(<<"copy", k>>)     \* a read or write failed
               /\ UNCHANGED tstatus
            \/ /\ SyncCallbackSeesCancel       \* callback false: TransferCancelled
               /\ WorkerEnds(<<"copy", k>>)
               /\ UNCHANGED tstatus
            \/ /\ ~SyncCallbackSeesCancel /\ paused
               /\ workers' = Put(Take(workers, <<"copy", k>>), <<"cbpause", k - 1>>)
               /\ UNCHANGED <<permits, tstatus>>
            \/ /\ ~SyncCallbackSeesCancel /\ ~paused
               /\ workers' = Put(Take(workers, <<"copy", k>>), <<"copy", k - 1>>)
               /\ tstatus' = "Running"
               /\ UNCHANGED permits
    /\ UNCHANGED <<mode, max_concurrent_files, paused, cancelled, dpc,
                   nextFile, syncResult, ctlCalls, cancelNext, cancelDpc,
                   cbAfterCancel>>
    /\ CtlFrame

\* sync_engine.rs 1254-1256, 1258-1301: while control.is_paused() { sleep },
\* then the state update, and the callback returns true
SyncWorkerUnpause ==
    /\ mode = "sync"
    /\ \E k \in 0..(FileBuffers - 1) :
         /\ workers[<<"cbpause", k>>] > 0
         /\ ~paused
         /\ workers' = Put(Take(workers, <<"cbpause", k>>), <<"copy", k>>)
    /\ tstatus' = "Running"
    /\ UNCHANGED <<mode, max_concurrent_files, paused, cancelled, dpc,
                   nextFile, permits, syncResult, ctlCalls, cancelNext,
                   cancelDpc, cbAfterCancel>>
    /\ CtlFrame

\* one turn of the copy loop of a resumed worker; its callback
\* (sync_engine.rs 867-876) returns true whatever the flags say
ResumeWorkerCopy ==
    /\ mode = "resume"
    /\ \E k \in 1..FileBuffers :
         /\ workers[<<"copy", k>>] > 0
         /\ \/ /\ WorkerEnds(<<"copy", k>>)     \* a read or write failed
               /\ UNCHANGED cbAfterCancel
            \/ /\ workers' = Put(Take(workers, <<"copy", k>>), <<"copy", k - 1>>)
               /\ cbAfterCancel' = (cbAfterCancel \/ cancelled)
               /\ UNCHANGED permits
    /\ UNCHANGED <<mode, max_concurrent_files, paused, cancelled, dpc,
                   nextFile, tstatus, syncResult, ctlCalls, cancelNext,
                   cancelDpc>>
    /\ CtlFrame

\* end of file: flush, verify, publish, complete_file (file_ops.rs 698-742,
\* sync_engine.rs 1329-1342, 877-884), or a failure there
WorkerFinish ==
    /\ workers[<<"copy", 0>>] > 0
    /\ WorkerEnds(<<"copy", 0>>)
    /\ UNCHANGED <<mode, max_concurrent_files, paused, cancelled, dpc,
                   nextFile, tstatus, syncResult, ctlCalls, cancelNext,
                   cancelDpc, cbAfterCancel>>
    /\ CtlFrame

\* sync_engine.rs 300-305, 174-176
PauseTransfer ==
    /\ ControlLive
    /\ ctlCalls < MaxCtl
    /\ ctlCalls' = ctlCalls + 1
    /\ paused' = TRUE
    /\ tstatus' = "Paused"
    /\ UNCHANGED <<mode, max_concurrent_files, cancelled, dpc, nextFile,
                   permits, workers, syncResult, cancelNext, cancelDpc,
                   cbAfterCancel>>
    /\ CtlFrame

\* sync_engine.rs 307-312, 178-181
ResumeTransfer ==
    /\ ControlLive
    /\ ctlCalls < MaxCtl
    /\ ctlCalls' = ctlCalls + 1
    /\ paused' = FALSE
    /\ tstatus' = "Running"
    /\ UNCHANGED <<mode, max_concurrent_files, cancelled, dpc, nextFile,
                   permits, workers, syncResult, cancelNext, cancelDpc,
                   cbAfterCancel>>
    /\ CtlFrame

\* sync_engine.rs 314-323, 183-187
CancelTransfer ==
    /\ ControlLive
    /\ ctlCalls < MaxCtl
    /\ ctlCalls' = ctlCalls + 1
    /\ cancelled' = TRUE
    /\ tstatus' = "Cancelled"
    /\ cancelNext' = IF cancelled THEN cancelNext ELSE nextFile
    /\ cancelDpc' = IF cancelled THEN cancelDpc ELSE dpc
    /\ UNCHANGED <<mode, max_concurrent_files, paused, dpc, nextFile,
                   permits, workers, syncResult, cbAfterCancel>>
    /\ CtlFrame

ConfiguredValues == {0, 2, ClampHi + 1}

InitCtl ==
    /\ \/ /\ mode = "sync"
          /\ max_concurrent_files \in ConfiguredValues
          /\ dpc = "dirs"
          /\ tstatus = "Running"
       \/ /\ mode = "resume"
          /\ max_concurrent_files = ResumeMaxConcurrent
          /\ dpc = "setup"
          /\ tstatus \in {"Running", "Failed", "Paused"}
    /\ paused = FALSE
    /\ cancelled = FALSE
    /\ nextFile = 1
    /\ permits = 0
    /\ workers = NoWorkers
    /\ syncResult = "none"
    /\ ctlCalls = 0
    /\ cancelNext = 0
    /\ cancelDpc = "none"
    /\ cbAfterCancel = FALSE
    /\ CopyIdle
    /\ PersistIdle
    /\ TreeIdle
    /\ RestIdle

DispatcherStep ==
    \/ SyncDirs
    \/ SyncSymlinks
    \/ ResumeSetup
    \/ DispatchCheck
    \/ DispatchWait
    \/ DispatchSpawn
    \/ DispatchJoin
    \/ SyncFinal
    \/ SyncComplete
    \/ ResumeFinal

WorkerStep ==
    \/ SyncWorkerStart
    \/ ResumeWorkerStart
    \/ SyncWorkerCopy
    \/ SyncWorkerUnpause
    \/ ResumeWorkerCopy
    \/ WorkerFinish

UserStep ==
    \/ PauseTransfer
    \/ ResumeTransfer
    \/ CancelTransfer

NextCtl == DispatcherStep \/ WorkerStep \/ UserStep

SpecCtl == InitCtl /\ [][NextCtl]_vars

\* the runtime runs every task that can run: the orchestrating task and the
\* spawned workers (tokio::spawn, spawn_blocking); the user's calls are free
FairSpecCtl == SpecCtl /\ WF_vars(DispatcherStep) /\ WF_vars(WorkerStep)

(***************************************************************************)
(* C7: after cancel_transfer on an executing transfer, paused or not,      *)
(* every worker eventually terminates without a resume_transfer call.      *)
(* Checked under FairSpecCtl, where the user is free never to call         *)
(* resume_transfer.  A sync_files worker that entered the pause loop of    *)
(* its progress callback before the cancel only leaves it when the paused  *)
(* flag is cleared: the loop does not read the cancel flag.                *)
(***************************************************************************)
C7_CancelTerminatesWorkers == cancelled ~> (Running(workers) = 0)

(***************************************************************************)
(* C8 as stated: once the cancel flag is set no further worker is spawned, *)
(* so the index of the next file to dispatch stays what it was when the    *)
(* flag was set.                                                           *)
(***************************************************************************)
C8_NoSpawnAfterCancel == cancelled => nextFile = cancelNext

(***************************************************************************)
(* C8 amended: once the cancel flag is set the dispatch loop spawns at     *)
(* most one further worker, namely for the file whose iteration had        *)
(* already passed the loop's cancel check (the dispatcher was in           *)
(* wait_for_resume or waiting for a permit) when the flag was set; no      *)
(* worker is spawned for any later file.                                   *)
(***************************************************************************)
C8_AtMostOneSpawnAfterCancel ==
    cancelled =>
        nextFile <= cancelNext + (IF cancelDpc \in {"wait", "acquire"} THEN 1 ELSE 0)

\* the cancel flag was set while the dispatcher waited for a permit, the
\* worker of that iteration was spawned afterwards, and the loop has ended
C8_Witness ==
    /\ cancelled
    /\ cancelDpc = "acquire"
    /\ nextFile = cancelNext + 1
    /\ nextFile <= NumFiles
    /\ dpc = "join"

(***************************************************************************)
(* C9: for every worker copying when the cancel flag is set, in sync_files *)
(* and in a resumed sync alike, the next invocation of its progress        *)
(* callback returns false.  cbAfterCancel records a progress callback that *)
(* ran with the cancel flag set and returned true.                         *)
(***************************************************************************)
C9_CallbackStopsCopyOnCancel == ~cbAfterCancel

(***************************************************************************)
(* C10: at every moment the number of running file workers (each holding   *)
(* a semaphore permit) is at most max_concurrent_files clamped to [1, 8]:  *)
(* 0 behaves as 1, a value above 8 behaves as 8.                           *)
(***************************************************************************)
C10_BoundedConcurrency ==
    LET n == ConfiguredConcurrency
    IN  /\ Running(workers) <= ClampHi
        /\ n \in ClampLo..ClampHi => Running(workers) <= n
        /\ n < ClampLo => Running(workers) <= ClampLo
        /\ dpc \in {"check", "wait", "acquire"} =>
              Running(workers) + permits =
                  (IF n < ClampLo THEN ClampLo ELSE IF n > ClampHi THEN ClampHi ELSE n)

\* configured above 8: eight workers run and the dispatcher waits for a permit
C10_Witness ==
    /\ mode = "sync"
    /\ max_concurrent_files > ClampHi
    /\ Running(workers) = ClampHi
    /\ permits = 0
    /\ dpc = "acquire"
    /\ nextFile <= NumFiles

(***************************************************************************)
(* C36: if cancel_transfer returned Ok before sync_files returns, then     *)
(* sync_files returns TransferCancelled and the status it leaves is        *)
(* Cancelled, wherever the cancel fell: also after the last worker         *)
(* finished and after the final cancellation check.                        *)
(***************************************************************************)
C36_CancelWins ==
    [][(mode = "sync" /\ cancelled /\ dpc # "returned" /\ dpc' = "returned")
          => (syncResult' = "TransferCancelled" /\ tstatus' = "Cancelled")]_vars

(***************************************************************************)
(* SpecSync: sync_files over a source and a destination tree, interrupted  *)
(* at any point by cancel_transfer or by a crash of the process, followed  *)
(* by resume_interrupted_transfer.  One worker runs at a time; the source  *)
(* does not change; reads and writes succeed; conflict_resolution is Skip  *)
(* and no overwrite flag is set.                                           *)
(***************************************************************************)
TreeFrame == UNCHANGED <<copyVars, persistVars, ctlVars, restVars>>

\* the options the running call works with
EffectiveOptions == IF phase = "resume" THEN ResumeOptions ELSE options

\* sync_engine.rs 929-996: entries whose info cannot be read become scan_errors
ScanOf(unread) == [files |-> Paths \ unread, complete |-> unread = {}]

\* mutant of ScanIncomplete: cleanup_orphans does not look at scan_complete
ScanNeverIncomplete(sc) == FALSE

\* sync_engine.rs 1010: if !scan_complete
ScanIncomplete(sc) == ~sc.complete

\* file_ops.rs 572-607, source and destination mtimes being equal
DeltaStatus(f) ==
    IF ~dest[f].exists THEN "New"
    ELSE IF Len(dest[f].data) # source[f] THEN "Modified"
    ELSE "Unchanged"

SetFile(tree, f, file) == [tree EXCEPT ![f] = file]

\* sync_engine.rs 478-494: cleanup_partial_files, create_transfer, the control
SyncBegin ==
    /\ phase = "sync" /\ tpc = "begin"
    /\ temps' = IF options.dry_run THEN temps ELSE AllGone
    /\ state' = [status |-> "Pending", files_failed |-> 0,
                 files |-> [p \in Paths |-> NoState]]
    /\ tpc' = "scan"
    /\ UNCHANGED <<options, source, unreadable, dest, dest0, scan, pending,
                   cur, summary, interrupt, phase, swept>>
    /\ TreeFrame

\* sync_engine.rs 500-564: scan, seed the record, partition the manifest
SyncScan ==
    /\ phase = "sync" /\ tpc = "scan"
    /\ LET sc == ScanOf(unreadable)
           kept == {f \in sc.files : ~should_exclude(f, options.exclude_patterns)}
       IN  /\ scan' = sc
           /\ state' = [state EXCEPT
                  !.status = "Running",
                  !.files = [p \in Paths |->
                      IF p \in kept /\ ~state.files[p].tracked
                      THEN NewFileState ELSE state.files[p]]]
           /\ pending' = kept
    /\ tpc' = "dispatch"
    /\ UNCHANGED <<options, source, unreadable, dest, temps, dest0, cur,
                   summary, interrupt, phase, swept>>
    /\ TreeFrame

\* sync_engine.rs 630-692, 816-896: the dispatch loop hands a file to a worker
TreeDispatch ==
    /\ tpc = "dispatch"
    /\ IF interrupt = "cancel" \/ pending = {}
       THEN /\ tpc' = "final"
            /\ UNCHANGED <<pending, cur>>
       ELSE \E f \in pending :
            /\ pending' = pending \ {f}
            /\ cur' = [path |-> f, bytes_copied |-> 0, atomic |-> FALSE]
            /\ tpc' = "worker"
    /\ UNCHANGED <<options, source, unreadable, dest, temps, dest0, state,
                   scan, summary, interrupt, phase, swept>>
    /\ TreeFrame

\* sync_file_static up to the open of the target (sync_engine.rs 1093-1232,
\* file_ops.rs 771-807, 618-641)
SyncWorkerBegin ==
    /\ phase = "sync" /\ tpc = "worker"
    /\ LET f == cur.path
           fs == state.files[f]
           resume_offset == get_resume_offset(fs.last_verified_offset)
       IN  IF DeltaStatus(f) # "New"
           THEN /\ state' = [state EXCEPT !.files[f] = skip_file(fs)]
                /\ cur' = NoCopy
                /\ tpc' = "dispatch"
                /\ UNCHANGED <<dest, temps>>
           ELSE IF options.dry_run
           THEN /\ state' = [state EXCEPT !.files[f] = complete_file(fs, source[f])]
                /\ cur' = NoCopy
                /\ tpc' = "dispatch"
                /\ UNCHANGED <<dest, temps>>
           ELSE IF resume_offset = 0
           THEN /\ temps' = SetFile(temps, f, FileOf(<<>>))
                /\ cur' = [path |-> f, bytes_copied |-> 0, atomic |-> TRUE]
                /\ tpc' = "copy"
                /\ UNCHANGED <<dest, state>>
           ELSE /\ dest' = SetFile(dest, f,
                              IF dest[f].exists THEN dest[f] ELSE FileOf(<<>>))
                /\ cur' = [path |-> f, bytes_copied |-> resume_offset,
                           atomic |-> FALSE]
                /\ tpc' = "copy"
                /\ UNCHANGED <<temps, state>>
    /\ UNCHANGED <<options, source, unreadable, dest0, scan, pending, summary,
                   interrupt, phase, swept>>
    /\ TreeFrame

\* the spawned task of the resumed sync up to the open of the destination
\* (sync_engine.rs 837-865, file_ops.rs 618-641)
ResumeWorkerBegin ==
    /\ phase = "resume" /\ tpc = "worker"
    /\ LET f == cur.path
           resume_offset == get_resume_offset(state.files[f].last_verified_offset)
       IN  /\ dest' = SetFile(dest, f,
                        IF resume_offset > 0 /\ dest[f].exists
                        THEN dest[f] ELSE FileOf(<<>>))
           /\ cur' = [path |-> f, bytes_copied |-> resume_offset, atomic |-> FALSE]
    /\ tpc' = "copy"
    /\ UNCHANGED <<options, source, unreadable, temps, dest0, state, scan,
                   pending, summary, interrupt, phase, swept>>
    /\ TreeFrame

\* one turn of the copy loop (file_ops.rs 659-696) with the progress callback
\* of the phase (sync_engine.rs 1249-1302, 867-876)
TreeCopyBlock ==
    /\ tpc = "copy"
    /\ cur.bytes_copied < source[cur.path]
    /\ LET f == cur.path
           off == cur.bytes_copied
           left == source[f] - off
           buf == EffectiveOptions.buffer_size
           n == IF buf < left THEN buf ELSE left
           target == IF cur.atomic THEN temps[f] ELSE dest[f]
           written == FileOf(WriteAt(target.data, off, n, SrcData(source[f])))
       IN  IF phase = "sync" /\ interrupt = "cancel"
           THEN \* callback false: TransferCancelled; the atomic copy removes its temp
                /\ temps' = IF cur.atomic THEN SetFile(temps, f, RemoveTemp(written))
                            ELSE temps
                /\ dest' = IF cur.atomic THEN dest ELSE SetFile(dest, f, written)
                /\ state' = [state EXCEPT !.files[f] = fail_file(@),
                                          !.files_failed = @ + 1]
                /\ cur' = NoCopy
                /\ tpc' = "dispatch"
           ELSE /\ temps' = IF cur.atomic THEN SetFile(temps, f, written) ELSE temps
                /\ dest' = IF cur.atomic THEN dest ELSE SetFile(dest, f, written)
                /\ state' = IF phase = "sync"
                            THEN [state EXCEPT
                                    !.status = "Running",
                                    !.files[f] = update_file_progress(@, off + n)]
                            ELSE state
                /\ cur' = [cur EXCEPT !.bytes_copied = off + n]
                /\ tpc' = "copy"
    /\ UNCHANGED <<options, source, unreadable, dest0, scan, pending, summary,
                   interrupt, phase, swept>>
    /\ TreeFrame

\* end of file: flush, publish (file_ops.rs 698-742, 813-828), complete_file
\* (sync_engine.rs 1331-1336, 877-884)
TreeCopyEnd ==
    /\ tpc = "copy"
    /\ cur.bytes_copied >= source[cur.path]
    /\ LET f == cur.path
       IN  /\ dest' = IF cur.atomic THEN SetFile(dest, f, temps[f]) ELSE dest
           /\ temps' = IF cur.atomic THEN SetFile(temps, f, NoFile) ELSE temps
           /\ state' = [state EXCEPT !.files[f] = complete_file(@, source[f])]
    /\ cur' = NoCopy
    /\ tpc' = "dispatch"
    /\ UNCHANGED <<options, source, unreadable, dest0, scan, pending, summary,
                   interrupt, phase, swept>>
    /\ TreeFrame

\* sync_engine.rs 1027-1050: entries of the destination that are not in the manifest
Orphans(sc) == {p \in DestPaths : dest[p].exists /\ p \notin sc.files}

\* sync_engine.rs 699-727: cancellation check, orphan sweep, final status
SyncFinish ==
    /\ phase = "sync" /\ tpc = "final"
    /\ IF interrupt = "cancel"
       THEN /\ state' = [state EXCEPT !.status = "Cancelled"]
            /\ summary' = [summary EXCEPT !.result = "TransferCancelled"]
            /\ UNCHANGED <<dest, swept>>
       ELSE /\ state' = [state EXCEPT !.status = "Completed"]
            /\ IF options.delete_orphans /\ ~options.dry_run
               THEN IF ScanIncomplete(scan)
                    THEN /\ summary' = [errors |-> summary.errors
                                                    \cup {"Orphan cleanup skipped"},
                                        result |-> "Ok"]
                         /\ UNCHANGED <<dest, swept>>
                    ELSE /\ dest' = [p \in DestPaths |->
                                       IF p \in Orphans(scan) THEN NoFile ELSE dest[p]]
                         /\ swept' = Orphans(scan)
                         /\ summary' = [summary EXCEPT !.result = "Ok"]
               ELSE /\ summary' = [summary EXCEPT !.result = "Ok"]
                    /\ UNCHANGED <<dest, swept>>
    /\ tpc' = "returned"
    /\ UNCHANGED <<options, source, unreadable, temps, dest0, scan, pending,
                   cur, interrupt, phase>>
    /\ TreeFrame

\* sync_files did not run to its end
Interrupted == tpc = "crashed" \/ summary.result = "TransferCancelled"

\* resume_interrupted_transfer and resume_sync_with_state up to the dispatch
\* loop (sync_engine.rs 256-282, 732-804)
ResumeBegin ==
    /\ phase = "sync" /\ tpc \in {"returned", "crashed"}
    /\ Interrupted
    /\ phase' = "resume"
    /\ interrupt' = "none"
    /\ summary' = [errors |-> {}, result |-> "none"]
    /\ LET sc == ScanOf(unreadable)
           todo == {f \in sc.files :
                      /\ ~should_exclude(f, ResumeOptions.exclude_patterns)
                      /\ state.files[f].status # "Completed"}
       IN  /\ scan' = sc
           /\ pending' = todo
           /\ state' = [state EXCEPT
                          !.status = IF todo = {} THEN "Completed" ELSE "Running"]
           /\ tpc' = IF todo = {} THEN "returned" ELSE "dispatch"
    /\ UNCHANGED <<options, source, unreadable, dest, temps, dest0, cur, swept>>
    /\ TreeFrame

\* sync_engine.rs 903-924: final status of the resumed transfer
ResumeFinish ==
    /\ phase = "resume" /\ tpc = "final"
    /\ state' = [state EXCEPT !.status =
                    IF interrupt = "cancel" THEN "Cancelled"
                    ELSE IF state.files_failed > 0 THEN "Failed"
                    ELSE "Completed"]
    /\ summary' = [summary EXCEPT !.result = "Ok"]
    /\ tpc' = "returned"
    /\ UNCHANGED <<options, source, unreadable, dest, temps, dest0, scan,
                   pending, cur, interrupt, phase, swept>>
    /\ TreeFrame

\* cancel_transfer during sync_files (sync_engine.rs 314-323)
CancelSync ==
    /\ phase = "sync"
    /\ tpc \in {"scan", "dispatch", "worker", "copy", "final"}
    /\ interrupt = "none"
    /\ interrupt' = "cancel"
    /\ state' = [state EXCEPT !.status = "Cancelled"]
    /\ UNCHANGED <<options, source, unreadable, dest, temps, dest0, scan,
                   pending, cur, summary, phase, tpc, swept>>
    /\ TreeFrame

\* the process dies during sync_files: the trees and the persisted record stay
CrashSync ==
    /\ phase = "sync"
    /\ tpc \in {"scan", "dispatch", "worker", "copy", "final"}
    /\ tpc' = "crashed"
    /\ cur' = NoCopy
    /\ pending' = {}
    /\ scan' = NoScan
    /\ interrupt' = "none"
    /\ UNCHANGED <<options, source, unreadable, dest, temps, dest0, state,
                   summary, phase, swept>>
    /\ TreeFrame

PatternSets == {{}, {<<"cache">>}, {<<"b">>}, {<<"cache", "b">>},
                {<<"a">>, <<"*", "b">>}}
BufferSizes == {1, BLOCKS_TO_VERIFY + 1}
SourceSizes == {0, 2, MaxBlocks}

InitSync ==
    /\ options \in [exclude_patterns : PatternSets, delete_orphans : BOOLEAN,
                    dry_run : BOOLEAN, buffer_size : BufferSizes]
    /\ \E n \in SourceSizes : source = [p \in Paths |-> IF p = PathA THEN n ELSE 1]
    /\ unreadable \in SUBSET Paths
    /\ \E have \in SUBSET DestPaths :
         dest = [p \in DestPaths |->
                   IF p \notin have THEN NoFile
                   ELSE IF p \in Paths THEN FileOf(SrcData(source[p]))
                   ELSE FileOf(<<7>>)]
    /\ temps = AllGone
    /\ dest0 = dest
    /\ state = [status |-> "Pending", files_failed |-> 0,
                files |-> [p \in Paths |-> NoState]]
    /\ scan = NoScan
    /\ pending = {}
    /\ cur = NoCopy
    /\ summary = [errors |-> {}, result |-> "none"]
    /\ interrupt = "none"
    /\ phase = "sync"
    /\ tpc = "begin"
    /\ swept = {}
    /\ CopyIdle
    /\ PersistIdle
    /\ CtlIdle
    /\ RestIdle

NextSync ==
    \/ SyncBegin
    \/ SyncScan
    \/ TreeDispatch
    \/ SyncWorkerBegin
    \/ ResumeWorkerBegin
    \/ TreeCopyBlock
    \/ TreeCopyEnd
    \/ SyncFinish
    \/ ResumeBegin
    \/ ResumeFinish
    \/ CancelSync
    \/ CrashSync

SpecSync == InitSync /\ [][NextSync]_vars

\* the destination tree an uninterrupted sync_files(S, D, options) leaves
\* (sync_engine.rs 469-728)
UninterruptedDest ==
    LET sc == ScanOf(unreadable)
        sweeps == options.delete_orphans /\ ~options.dry_run /\ sc.complete
    IN  [p \in DestPaths |->
           IF sweeps /\ p \notin sc.files THEN NoFile
           ELSE IF /\ p \in sc.files
                   /\ ~should_exclude(p, options.exclude_patterns)
                   /\ ~options.dry_run
                   /\ ~dest0[p].exists
                THEN FileOf(SrcData(source[p]))
                ELSE dest0[p]]

\* sync_files returned Ok: its destination is that of UninterruptedDest
SyncOutcome ==
    (phase = "sync" /\ tpc = "returned" /\ summary.result = "Ok")
        => (dest = UninterruptedDest /\ temps = AllGone)

(***************************************************************************)
(* C2: a sync_files interrupted by cancellation or a crash, followed by    *)
(* resume_interrupted_transfer with no source mutation in between, leaves  *)
(* the destination tree with the same files and the same byte content as   *)
(* an uninterrupted sync_files(S, D, opts) would.                          *)
(***************************************************************************)
C2_ResumeEquivalence ==
    (phase = "resume" /\ tpc = "returned")
        => (dest = UninterruptedDest /\ temps = AllGone)

(***************************************************************************)
(* C3 as stated: in a sync_files with delete_orphans = true whose scan     *)
(* recorded a scan error, the orphan sweep deletes no destination entry    *)
(* and the returned summary holds an "Orphan cleanup skipped" error.       *)
(***************************************************************************)
C3_OrphanSweepSkipped ==
    (/\ phase = "sync" /\ tpc = "returned" /\ summary.result = "Ok"
     /\ options.delete_orphans
     /\ ~ScanOf(unreadable).complete)
        => (swept = {} /\ "Orphan cleanup skipped" \in summary.errors)

(***************************************************************************)
(* C3 amended: in sync_files with delete_orphans = true, if the source     *)
(* scan recorded at least one scan error the orphan sweep deletes no       *)
(* destination entry; and if moreover dry_run = false and the sync runs to *)
(* its end, it returns Ok with an "Orphan cleanup skipped" error in its    *)
(* summary.  With dry_run = true the sweep is not attempted and no such    *)
(* error is recorded.                                                      *)
(***************************************************************************)
C3_OrphanSweepSkippedUnlessDryRun ==
    (options.delete_orphans /\ ~ScanOf(unreadable).complete) =>
        /\ swept = {}
        /\ (phase = "sync" /\ tpc = "returned" /\ summary.result = "Ok") =>
              ("Orphan cleanup skipped" \in summary.errors <=> ~options.dry_run)

\* a sync with delete_orphans whose scan failed on an entry that exists in
\* the destination, next to an entry with no source counterpart, returned
C3_Witness ==
    /\ phase = "sync" /\ tpc = "returned" /\ summary.result = "Ok"
    /\ options.delete_orphans /\ ~options.dry_run
    /\ \E p \in unreadable : dest[p].exists
    /\ dest[PathOld].exists
    /\ "Orphan cleanup skipped" \in summary.errors

(***************************************************************************)
(* C4: for a source path that matches an exclude pattern of the sync (as   *)
(* its full relative path, its basename or any normal component), no file  *)
(* is ever written to the corresponding destination path, neither by       *)
(* sync_files nor by a later resume_interrupted_transfer of the transfer.  *)
(***************************************************************************)
C4_ExclusionSoundness ==
    \A p \in Paths :
        should_exclude(p, options.exclude_patterns)
            => (dest[p] = dest0[p] /\ ~temps[p].exists)

(***************************************************************************)
(* SpecWait: a task calling TransferControl::wait_for_resume once per      *)
(* iteration of its loop (the dispatch loop of sync_files, sync_engine.rs  *)
(* 630-637; the pause loop of a resumed worker, 838-840) against the       *)
(* callers of pause(), resume() and cancel().  resume() and cancel() are   *)
(* two steps each: the store of the flag, then notify_waiters.             *)
(***************************************************************************)
WaitFrame ==
    UNCHANGED <<copyVars, persistVars, treeVars, unlinked, run, mgrVars, moreVars,
                mode, max_concurrent_files,
                dpc, permits, workers, tstatus, syncResult, cancelNext,
                cancelDpc, cbAfterCancel>>

\* mutant of TimeoutElapses: the wait on notified() has no timeout
TimeoutNever == FALSE

\* sync_engine.rs 193-196: tokio::time::timeout(500 ms, ..) elapses
TimeoutElapses == TRUE

\* sync_engine.rs 191: while self.is_paused() && !self.is_cancelled()
WaitCheck ==
    /\ wpc = "check"
    /\ IF paused /\ ~cancelled
       THEN wpc' = "create" /\ lostWakeup' = FALSE
       ELSE wpc' = "proceeded" /\ UNCHANGED lostWakeup
    /\ UNCHANGED <<paused, cancelled, ctlCalls, nextFile, upc>>
    /\ WaitFrame

\* sync_engine.rs 195: self.resume_notify.notified() joins the waiters
WaitCreate ==
    /\ wpc = "create"
    /\ wpc' = "waiting"
    /\ UNCHANGED <<paused, cancelled, ctlCalls, nextFile, upc, lostWakeup>>
    /\ WaitFrame

\* sync_engine.rs 193-198: the timeout ends the await, the loop checks again
WaitTimeout ==
    /\ wpc = "waiting"
    /\ TimeoutElapses
    /\ wpc' = "check"
    /\ UNCHANGED <<paused, cancelled, ctlCalls, nextFile, upc, lostWakeup>>
    /\ WaitFrame

\* sync_engine.rs 630-637: the next iteration of the loop calls wait_for_resume again
WaitAgain ==
    /\ wpc = "proceeded"
    /\ nextFile < NumFiles
    /\ ~cancelled
    /\ nextFile' = nextFile + 1
    /\ wpc' = "check"
    /\ UNCHANGED <<paused, cancelled, ctlCalls, upc, lostWakeup>>
    /\ WaitFrame

\* sync_engine.rs 174-176
ControlPause ==
    /\ upc = "idle" /\ ctlCalls < MaxCtl
    /\ ctlCalls' = ctlCalls + 1
    /\ paused' = TRUE
    /\ UNCHANGED <<cancelled, nextFile, wpc, upc, lostWakeup>>
    /\ WaitFrame

\* sync_engine.rs 179: self.paused.store(false)
ControlResumeStore ==
    /\ upc = "idle" /\ ctlCalls < MaxCtl
    /\ ctlCalls' = ctlCalls + 1
    /\ paused' = FALSE
    /\ upc' = "notify"
    /\ UNCHANGED <<cancelled, nextFile, wpc, lostWakeup>>
    /\ WaitFrame

\* sync_engine.rs 184: self.cancelled.store(true)
ControlCancelStore ==
    /\ upc = "idle" /\ ctlCalls < MaxCtl
    /\ ctlCalls' = ctlCalls + 1
    /\ cancelled' = TRUE
    /\ upc' = "notify"
    /\ UNCHANGED <<paused, nextFile, wpc, lostWakeup>>
    /\ WaitFrame

\* sync_engine.rs 180, 186: notify_waiters wakes the tasks that wait now
ControlNotify ==
    /\ upc = "notify"
    /\ upc' = "idle"
    /\ wpc' = IF wpc = "waiting" THEN "check" ELSE wpc
    /\ lostWakeup' = (lostWakeup \/ wpc = "create")
    /\ UNCHANGED <<paused, cancelled, ctlCalls, nextFile>>
    /\ WaitFrame

InitWait ==
    /\ wpc = "check"
    /\ upc = "idle"
    /\ lostWakeup = FALSE
    /\ MgrIdle
    /\ MoreIdle
    /\ paused \in BOOLEAN
    /\ cancelled = FALSE
    /\ nextFile = 1
    /\ ctlCalls = 0
    /\ mode = "sync"
    /\ max_concurrent_files = 0
    /\ dpc = "wait"
    /\ permits = 0
    /\ workers = NoWorkers
    /\ tstatus = "Running"
    /\ syncResult = "none"
    /\ cancelNext = 0
    /\ cancelDpc = "none"
    /\ cbAfterCancel = FALSE
    /\ unlinked = {}
    /\ run = 1
    /\ CopyIdle
    /\ PersistIdle
    /\ TreeIdle

WaiterStep == WaitCheck \/ WaitCreate \/ WaitTimeout \/ WaitAgain

NextWait ==
    \/ WaiterStep
    \/ ControlPause
    \/ ControlResumeStore
    \/ ControlCancelStore
    \/ ControlNotify

SpecWait == InitWait /\ [][NextWait]_vars

\* the runtime polls the waiting task and fires its timer; a call of
\* resume() or cancel() that stored the flag goes on to notify_waiters
FairSpecWait == SpecWait /\ WF_vars(WaiterStep) /\ WF_vars(ControlNotify)

(***************************************************************************)
(* C11: a task blocked in wait_for_resume eventually proceeds once paused  *)
(* is cleared or cancelled is set (unless the transfer is paused again     *)
(* first), whatever the interleaving of the flag store, notify_waiters and *)
(* the waiter's registration; and it leaves wait_for_resume only at a      *)
(* moment when paused is clear or cancelled is set.                        *)
(***************************************************************************)
C11_WaitForResume ==
    /\ (wpc # "proceeded" /\ (~paused \/ cancelled))
          ~> (wpc = "proceeded" \/ (paused /\ ~cancelled))
    /\ [][(wpc # "proceeded" /\ wpc' = "proceeded") => ~(paused /\ ~cancelled)]_vars

\* the notification of a resume() was issued before the waiter had joined
\* the waiters, and the waiter has proceeded all the same
C11_Witness ==
    /\ wpc = "proceeded"
    /\ lostWakeup
    /\ ~paused /\ ~cancelled

(***************************************************************************)
(* C12: whenever sync_files returns, with a summary or with an error, the  *)
(* status of the transfer record it created is terminal: Completed, Failed *)
(* or Cancelled.                                                           *)
(***************************************************************************)
C12_TerminalStatusOnReturn ==
    [][(mode = "sync" /\ dpc # "returned" /\ dpc' = "returned")
          => tstatus' \in {"Completed", "Failed", "Cancelled"}]_vars

(***************************************************************************)
(* SpecRun: sync_files run to its end, up to MaxRuns times in a row on the *)
(* same pair of trees, with Move mode, the three conflict resolutions,     *)
(* dry runs, files whose copy fails, and cancel_transfer.  One worker runs *)
(* at a time, a copy is one step, the scan is complete, no pattern         *)
(* excludes, and no overwrite_newer / overwrite_older / skip_existing flag *)
(* is set.                                                                 *)
(***************************************************************************)
RunFrame == UNCHANGED <<copyVars, persistVars, ctlVars, wpc, upc, lostWakeup, mgrVars, moreVars,
                        source, unreadable, phase, options>>

RunTags == <<"_1", "_2", "_3", "_4">>

\* file_ops.rs 872-883: the name with the timestamp of the call
generate_conflict_name(f) == f \o <<RunTags[run]>>

RunDestPaths == DestPaths \cup {f \o <<RunTags[r]>> : f \in Paths, r \in 1..MaxRuns}

\* mutant of DryRun: the option is not looked at
DryRunIgnored(o) == FALSE

\* sync_engine.rs 480, 584, 599, 715, 1153: options.dry_run
DryRun(o) == o.dry_run

\* sync_engine.rs 1120-1130 with neither overwrite flag set
ShouldOverwrite(o) == o.conflict_resolution \in {"Overwrite", "Rename"}

\* sync_engine.rs 1142-1150
ActualDest(f) ==
    IF DeltaStatus(f) = "Modified" /\ options.conflict_resolution = "Rename"
    THEN generate_conflict_name(f)
    ELSE f

NoSummary == [errors |-> {}, result |-> "none", files_copied |-> 0,
              files_skipped |-> 0, files_failed |-> 0, bytes_copied |-> 0]

\* sync_engine.rs 675-678: the worker's file came back Ok(bytes)
WorkerOk(sm, bytes) ==
    [sm EXCEPT !.files_copied = @ + 1, !.bytes_copied = @ + bytes]

\* mutant of WorkerErr: the error of the worker is dropped
WorkerErrDropped(sm, f, e) == sm

\* sync_engine.rs 679-688: the worker's file came back Err(e)
WorkerErr(sm, f, e) ==
    [sm EXCEPT !.files_failed = @ + 1, !.errors = @ \cup {<<f, e>>}]

\* sync_engine.rs 478-564: pre-clean, create_transfer, scan, seed, partition
RunBegin ==
    /\ tpc = "begin"
    /\ temps' = IF DryRun(options) THEN temps ELSE AllGone
    /\ scan' = [files |-> Paths \ unlinked, complete |-> TRUE]
    /\ state' = [status |-> "Running", files_failed |-> 0,
                 files |-> [p \in Paths |->
                              IF p \in unlinked THEN NoState ELSE NewFileState]]
    /\ pending' = Paths \ unlinked
    /\ summary' = NoSummary
    /\ tpc' = "dispatch"
    /\ UNCHANGED <<dest, dest0, cur, interrupt, swept, unlinked, run>>
    /\ RunFrame

\* sync_engine.rs 630-692: the dispatch loop hands a file to a worker
RunDispatch ==
    /\ tpc = "dispatch"
    /\ IF interrupt = "cancel" \/ pending = {}
       THEN /\ tpc' = "final"
            /\ UNCHANGED <<pending, cur>>
       ELSE \E f \in pending :
            /\ pending' = pending \ {f}
            /\ cur' = [path |-> f, bytes_copied |-> 0, atomic |-> TRUE]
            /\ tpc' = "worker"
    /\ UNCHANGED <<dest, temps, dest0, state, scan, summary, interrupt, swept,
                   unlinked, run>>
    /\ RunFrame

\* sync_file_static down to the dry-run return (sync_engine.rs 1093-1161)
RunWorkerBegin ==
    /\ tpc = "worker"
    /\ LET f == cur.path
           fs == state.files[f]
           skips == \/ DeltaStatus(f) = "Unchanged"
                    \/ DeltaStatus(f) = "Modified" /\ ~ShouldOverwrite(options)
       IN  IF skips
           THEN /\ state' = [state EXCEPT !.files[f] = skip_file(fs)]
                /\ summary' = WorkerOk(summary, 0)
                /\ cur' = NoCopy
                /\ tpc' = "dispatch"
           ELSE IF DryRun(options)
           THEN /\ state' = [state EXCEPT !.files[f] = complete_file(fs, source[f])]
                /\ summary' = WorkerOk(summary, source[f])
                /\ cur' = NoCopy
                /\ tpc' = "dispatch"
           ELSE /\ tpc' = "copy"
                /\ UNCHANGED <<state, summary, cur>>
    /\ UNCHANGED <<dest, temps, dest0, scan, pending, interrupt, swept,
                   unlinked, run>>
    /\ RunFrame

\* mutant of AfterFailedCopy: the source is removed whatever the copy returned
UnlinkAnyway(u, f) == u \cup {f}

\* sync_engine.rs 1327: the `??` returns the error before line 1338 is reached
AfterFailedCopy(u, f) == u

\* sync_engine.rs 1338-1340: if options.mode == SyncMode::Move { remove_file }
AfterCopy(u, f) == IF options.mode = "Move" THEN u \cup {f} ELSE u

\* the copy of sync_file_static succeeds: copy_file_atomic publishes the file
\* (file_ops.rs 807-828), complete_file, Move (sync_engine.rs 1305-1342)
RunCopyDone ==
    /\ tpc = "copy"
    /\ LET f == cur.path
       IN  /\ dest' = [dest EXCEPT ![ActualDest(f)] = FileOf(SrcData(source[f]))]
           /\ state' = [state EXCEPT !.files[f] = complete_file(@, source[f])]
           /\ unlinked' = AfterCopy(unlinked, f)
           /\ summary' = WorkerOk(summary, source[f])
    /\ cur' = NoCopy
    /\ tpc' = "dispatch"
    /\ UNCHANGED <<temps, dest0, scan, pending, interrupt, swept, run>>
    /\ RunFrame

\* what a copy can fail with: the disk-space pre-check (file_ops.rs 783-791),
\* a read or write, or the callback's false after a cancel
CopyErrors == {"DiskFull", "Io"} \cup
              (IF interrupt = "cancel" THEN {"TransferCancelled"} ELSE {})

\* the copy of sync_file_static fails: copy_file_atomic leaves the destination
\* as it was (file_ops.rs 830-839); the worker's Err arm (sync_engine.rs 679-688)
RunCopyFail ==
    /\ tpc = "copy"
    /\ \E e \in CopyErrors :
         LET f == cur.path
         IN  /\ state' = [state EXCEPT !.files[f] = fail_file(@),
                                       !.files_failed = @ + 1]
             /\ summary' = WorkerErr(summary, f, e)
             /\ unlinked' = AfterFailedCopy(unlinked, f)
    /\ cur' = NoCopy
    /\ tpc' = "dispatch"
    /\ UNCHANGED <<dest, temps, dest0, scan, pending, interrupt, swept, run>>
    /\ RunFrame

\* sync_engine.rs 1027-1050 over the destination tree of the runs
RunOrphans == {p \in RunDestPaths : dest[p].exists /\ p \notin scan.files}

\* sync_engine.rs 699-727: cancellation check, orphan sweep, final status
RunFinish ==
    /\ tpc = "final"
    /\ IF interrupt = "cancel"
       THEN /\ state' = [state EXCEPT !.status = "Cancelled"]
            /\ summary' = [summary EXCEPT !.result = "TransferCancelled"]
            /\ UNCHANGED <<dest, swept>>
       ELSE /\ state' = [state EXCEPT !.status = "Completed"]
            /\ summary' = [summary EXCEPT !.result = "Ok"]
            /\ IF options.delete_orphans /\ ~DryRun(options)
               THEN /\ dest' = [p \in RunDestPaths |->
                                  IF p \in RunOrphans THEN NoFile ELSE dest[p]]
                    /\ swept' = RunOrphans
               ELSE UNCHANGED <<dest, swept>>
    /\ tpc' = "returned"
    /\ UNCHANGED <<temps, dest0, scan, pending, cur, interrupt, unlinked, run>>
    /\ RunFrame

\* cancel_transfer during the run (sync_engine.rs 314-323)
RunCancel ==
    /\ tpc \in {"dispatch", "worker", "copy", "final"}
    /\ interrupt = "none"
    /\ interrupt' = "cancel"
    /\ state' = [state EXCEPT !.status = "Cancelled"]
    /\ UNCHANGED <<dest, temps, dest0, scan, pending, cur, summary, tpc, swept,
                   unlinked, run>>
    /\ RunFrame

\* sync_files is called again on the same trees with the same options
RunAgain ==
    /\ tpc = "returned"
    /\ run < MaxRuns
    /\ run' = run + 1
    /\ dest0' = dest
    /\ swept' = {}
    /\ interrupt' = "none"
    /\ tpc' = "begin"
    /\ UNCHANGED <<dest, temps, state, scan, pending, cur, summary, unlinked>>
    /\ RunFrame

RunOptions == [mode : {"Copy", "Move"},
               conflict_resolution : {"Skip", "Overwrite", "Rename"},
               dry_run : BOOLEAN, delete_orphans : BOOLEAN,
               exclude_patterns : {{}}, buffer_size : {1}]

\* a file of the destination: absent, equal to the source's, or another one
DestChoices(p) == {NoFile, FileOf(SrcData(source[p])), FileOf(<<9, 9, 9>>)}

InitRun ==
    /\ options \in RunOptions
    /\ source = [p \in Paths |-> IF p = PathA THEN 2 ELSE 1]
    /\ unreadable = {}
    /\ \E fa \in DestChoices(PathA), fb \in DestChoices(PathB),
          fo \in {NoFile, FileOf(<<7>>)} :
         dest = [p \in RunDestPaths |->
                   IF p = PathA THEN fa ELSE IF p = PathB THEN fb
                   ELSE IF p = PathOld THEN fo ELSE NoFile]
    /\ temps \in {AllGone, [AllGone EXCEPT ![PathA] = FileOf(<<1>>)]}
    /\ dest0 = dest
    /\ state = [status |-> "Pending", files_failed |-> 0,
                files |-> [p \in Paths |-> NoState]]
    /\ scan = NoScan
    /\ pending = {}
    /\ cur = NoCopy
    /\ summary = NoSummary
    /\ interrupt = "none"
    /\ phase = "sync"
    /\ tpc = "begin"
    /\ swept = {}
    /\ unlinked = {}
    /\ run = 1
    /\ wpc = "proceeded" /\ upc = "idle" /\ lostWakeup = FALSE
    /\ MgrIdle
    /\ MoreIdle
    /\ CopyIdle
    /\ PersistIdle
    /\ CtlIdle

NextRun ==
    \/ RunBegin
    \/ RunDispatch
    \/ RunWorkerBegin
    \/ RunCopyDone
    \/ RunCopyFail
    \/ RunFinish
    \/ RunCancel
    \/ RunAgain

SpecRun == InitRun /\ [][NextRun]_vars

(***************************************************************************)
(* C13: a sync that runs to its end without cancellation, through          *)
(* sync_files or through resume_interrupted_transfer, records status       *)
(* Completed even when files failed.  Checked under SpecSync, where the    *)
(* record of a resumed transfer can count a failed file.                   *)
(***************************************************************************)
C13_CompletedDespiteFailures ==
    (/\ tpc = "returned"
     /\ interrupt # "cancel"
     /\ (phase = "resume" \/ summary.result = "Ok"))
        => state.status = "Completed"

(***************************************************************************)
(* C14: when a file worker fails, the failure is recorded in that file's   *)
(* record (status Failed), files_failed is incremented by exactly one, one *)
(* entry is appended to the summary's errors, and every other regular file *)
(* of the manifest is still dispatched and processed to its own outcome.   *)
(***************************************************************************)
FailedFiles == {f \in Paths : state.files[f].status = "Failed"}

C15_DiskFullFailsSync ==
    (\E f \in Paths : <<f, "DiskFull">> \in summary.errors)
        => (summary.result # "Ok" /\ state.status # "Completed")

(***************************************************************************)
(* C16: a second sync_files(S, D, opts) with no change to S or D since the *)
(* first writes no destination file and reports bytes_copied = 0,          *)
(* files_copied = 0 and files_skipped = the number of regular files.       *)
(* Stated for a second run that finds every source file with its copy in   *)
(* place.                                                                  *)
(***************************************************************************)
C16_IdempotentRerun ==
    (/\ run = 2 /\ tpc = "returned" /\ summary.result = "Ok"
     /\ unlinked = {}
     /\ \A p \in Paths : dest0[p] = FileOf(SrcData(source[p])))
        => /\ \A p \in Paths : dest[p] = dest0[p]
           /\ summary.bytes_copied = 0
           /\ summary.files_copied = 0
           /\ summary.files_skipped = Cardinality(Paths)

C38_SweepSparesOwnWrites ==
    [][(tpc = "final" /\ tpc' = "returned")
          => \A p \in swept' : dest[p] = dest0[p]]_vars

(***************************************************************************)
(* SpecMgr: the states map of TransferStateManager, the <id>.json files of *)
(* the state directory and the controls map of the engine, under the calls *)
(* that read and write them: sync_files and resume_interrupted_transfer    *)
(* with their workers, pause / resume / cancel, discard_transfer,          *)
(* get_interrupted_transfers and a restart of the process.  A record that  *)
(* was removed from the map lives on in the tasks that looked it up        *)
(* before: present = FALSE, its fields are what those tasks hold.          *)
(***************************************************************************)
MgrFrame == UNCHANGED <<copyVars, persistVars, ctlVars, treeVars,
                        wpc, upc, lostWakeup, unlinked, run, moreVars>>

\* transfer_state.rs 171-176
is_finished(r) == r.status \in {"Completed", "Failed", "Cancelled"}

\* transfer_state.rs 281-297, 299-306: <id>.json is replaced by the record
save_state(id, r) == [stateFiles EXCEPT ![id] = [r EXCEPT !.present = TRUE]]

\* transfer_state.rs 354-377
get_interrupted_transfers ==
    {id \in Ids :
        /\ states[id].present
        /\ \/ states[id].status \in {"Paused", "Failed"}
           \/ states[id].status = "Running"
           \/ states[id].status = "Pending" /\ states[id].bytes_transferred > 0}

\* transfer_state.rs 213-231: the files of unfinished transfers are loaded
load_persisted_states ==
    [id \in Ids |-> IF stateFiles[id].present /\ ~is_finished(stateFiles[id])
                    THEN stateFiles[id]
                    ELSE NoRecord]

\* sync_engine.rs 486-493, transfer_state.rs 316-326: sync_files creates the
\* record of a fresh id, persists it and registers a control
MgrSyncStart(id) ==
    /\ wk[id] = "none"
    /\ ~states[id].present /\ ~stateFiles[id].present /\ id \notin discarded
    /\ \A j \in Ids : j < id => (states[j].present \/ j \in discarded \/ wk[j] # "none")
    /\ LET r == [present |-> TRUE, status |-> "Pending", bytes_transferred |-> 0] IN
          /\ states' = [states EXCEPT ![id] = r]
          /\ stateFiles' = save_state(id, r)
    /\ controls' = controls \cup {id}
    /\ wk' = [wk EXCEPT ![id] = "scan"]
    /\ UNCHANGED <<held, discarded, boots, mpc, listed, older>>
    /\ MgrFrame

\* sync_engine.rs 512-535: get_transfer(id)?, status Running, save_state
MgrSyncRunning(id) ==
    /\ wk[id] = "scan"
    /\ IF states[id].present
       THEN LET r == [states[id] EXCEPT !.status = "Running"] IN
               /\ states' = [states EXCEPT ![id] = r]
               /\ stateFiles' = save_state(id, r)
               /\ wk' = [wk EXCEPT ![id] = "sync"]
       ELSE /\ wk' = [wk EXCEPT ![id] = "done"]
            /\ UNCHANGED <<states, stateFiles>>
    /\ UNCHANGED <<controls, held, discarded, boots, mpc, listed, older>>
    /\ MgrFrame

\* sync_engine.rs 1272, 683: a callback of a worker of sync_files looks the
\* record up; nothing happens when it is not in the map
MgrWorkerGet(id) ==
    /\ wk[id] = "sync"
    /\ id \notin held
    /\ states[id].present
    /\ held' = held \cup {id}
    /\ UNCHANGED <<states, stateFiles, controls, wk, discarded, boots, mpc, listed, older>>
    /\ MgrFrame

\* sync_engine.rs 1273-1278: the callback writes the record it looked up
\* (status Running, progress) and saves it
MgrWorkerSave(id) ==
    /\ id \in held
    /\ LET r == [states[id] EXCEPT !.status = "Running", !.bytes_transferred = 1] IN
          /\ states' = [states EXCEPT ![id] = r]
          /\ stateFiles' = save_state(id, r)
    /\ held' = held \ {id}
    /\ UNCHANGED <<controls, wk, discarded, boots, mpc, listed, older>>
    /\ MgrFrame

\* sync_engine.rs 300-321 with set_status 1062-1074: pause_transfer,
\* resume_transfer and cancel_transfer need the control and the record
MgrSetStatus(id, st) ==
    /\ id \in controls
    /\ states[id].present
    /\ states[id].status # st
    /\ LET r == [states[id] EXCEPT !.status = st] IN
          /\ states' = [states EXCEPT ![id] = r]
          /\ stateFiles' = save_state(id, r)
    /\ UNCHANGED <<controls, wk, held, discarded, boots, mpc, listed, older>>
    /\ MgrFrame

\* sync_engine.rs 699-727: the workers are joined; set_status(Cancelled) or
\* set_status(Completed), which fails when the record is not in the map.
\* The control stays in the controls map.
MgrSyncFinish(id, st) ==
    /\ wk[id] = "sync"
    /\ id \notin held
    /\ st \in {"Completed", "Cancelled"}
    /\ IF states[id].present
       THEN LET r == [states[id] EXCEPT !.status = st] IN
               /\ states' = [states EXCEPT ![id] = r]
               /\ stateFiles' = save_state(id, r)
       ELSE UNCHANGED <<states, stateFiles>>
    /\ wk' = [wk EXCEPT ![id] = "done"]
    /\ UNCHANGED <<controls, held, discarded, boots, mpc, listed, older>>
    /\ MgrFrame

\* an execution of id (sync_files or a resumed sync) has its workers
\* running; one doubled execution is followed at a time
ExecutingAlone(id) ==
    /\ wk[id] \in {"sync", "resume"}
    /\ \A j \in Ids : older[j] = "none"

\* sync_engine.rs 253-255, 737-764: resume_interrupted_transfer looks the
\* record up once, inserts a new control under the id (replacing the one
\* that is there), records Running; it does not ask whether the transfer
\* is executing
MgrResumeStart(id) ==
    /\ wk[id] \in {"none", "done"} \/ ExecutingAlone(id)
    /\ states[id].present
    /\ LET r == [states[id] EXCEPT !.status = "Running"] IN
          /\ states' = [states EXCEPT ![id] = r]
          /\ stateFiles' = save_state(id, r)
    /\ controls' = controls \cup {id}
    /\ wk' = [wk EXCEPT ![id] = "resume"]
    /\ older' = [older EXCEPT ![id] = IF ExecutingAlone(id) THEN wk[id] ELSE @]
    /\ UNCHANGED <<held, discarded, boots, mpc, listed>>
    /\ MgrFrame

\* sync_engine.rs 699-727, 903-924: the execution that was running when the
\* later resume began ends: its final status on the record, save_state, and
\* after a resumed sync controls.remove(id)
MgrOlderFinish(id, st) ==
    /\ older[id] # "none"
    /\ st \in (IF older[id] = "sync" THEN {"Completed", "Cancelled"}
               ELSE {"Completed", "Failed", "Cancelled"})
    /\ IF states[id].present \/ older[id] = "resume"
       THEN LET r == [states[id] EXCEPT !.status = st] IN
               /\ states' = [states EXCEPT ![id] = r]
               /\ stateFiles' = save_state(id, r)
       ELSE UNCHANGED <<states, stateFiles>>
    /\ controls' = IF older[id] = "resume" THEN controls \ {id} ELSE controls
    /\ older' = [older EXCEPT ![id] = "none"]
    /\ UNCHANGED <<wk, held, discarded, boots, mpc, listed>>
    /\ MgrFrame

\* sync_engine.rs 877-891: a worker of the resumed transfer writes the
\* record the call looked up at its start and saves it
MgrResumeWorkerSave(id) ==
    /\ wk[id] = "resume"
    /\ states[id].bytes_transferred = 0
    /\ LET r == [states[id] EXCEPT !.bytes_transferred = 1] IN
          /\ states' = [states EXCEPT ![id] = r]
          /\ stateFiles' = save_state(id, r)
    /\ UNCHANGED <<controls, wk, held, discarded, boots, mpc, listed, older>>
    /\ MgrFrame

\* sync_engine.rs 903-924: final status of the resumed transfer on the record
\* the call holds, save_state, the control is removed
MgrResumeFinish(id, st) ==
    /\ wk[id] = "resume"
    /\ st \in {"Completed", "Failed", "Cancelled"}
    /\ LET r == [states[id] EXCEPT !.status = st] IN
          /\ states' = [states EXCEPT ![id] = r]
          /\ stateFiles' = save_state(id, r)
    /\ controls' = controls \ {id}
    /\ wk' = [wk EXCEPT ![id] = "done"]
    /\ UNCHANGED <<held, discarded, boots, mpc, listed, older>>
    /\ MgrFrame

\* sync_engine.rs 285-294, transfer_state.rs 379-391
MgrDiscard(id) ==
    /\ states[id].present
    /\ controls' = controls \ {id}
    /\ states' = [states EXCEPT ![id].present = FALSE]
    /\ stateFiles' = [stateFiles EXCEPT ![id] = NoRecord]
    /\ discarded' = discarded \cup {id}
    /\ UNCHANGED <<wk, held, boots, mpc, listed, older>>
    /\ MgrFrame

\* the process ends and starts again: SyncEngine::new (sync_engine.rs
\* 231-238) with TransferStateManager::new (transfer_state.rs 190-205)
MgrRestart ==
    /\ boots < MaxBoots
    /\ boots' = boots + 1
    /\ states' = load_persisted_states
    /\ controls' = {}
    /\ wk' = [id \in Ids |-> "none"]
    /\ held' = {}
    /\ mpc' = "idle"
    /\ listed' = {}
    /\ older' = [id \in Ids |-> "none"]
    /\ UNCHANGED <<stateFiles, discarded>>
    /\ MgrFrame

\* sync_engine.rs 249-251: get_interrupted_transfers is called
MgrQuery ==
    /\ mpc = "idle"
    /\ mpc' = "listed"
    /\ listed' = get_interrupted_transfers
    /\ UNCHANGED <<states, stateFiles, controls, wk, held, discarded, boots, older>>
    /\ MgrFrame

\* the caller is done with the list
MgrQueryDone ==
    /\ mpc = "listed"
    /\ mpc' = "idle"
    /\ listed' = {}
    /\ UNCHANGED <<states, stateFiles, controls, wk, held, discarded, boots, older>>
    /\ MgrFrame

InitMgr ==
    /\ MgrIdle
    /\ MoreIdle
    /\ wpc = "proceeded" /\ upc = "idle" /\ lostWakeup = FALSE
    /\ unlinked = {} /\ run = 1
    /\ CopyIdle
    /\ PersistIdle
    /\ CtlIdle
    /\ TreeIdle

NextMgr ==
    \/ \E id \in Ids : MgrSyncStart(id)
    \/ \E id \in Ids : MgrSyncRunning(id)
    \/ \E id \in Ids : MgrWorkerGet(id)
    \/ \E id \in Ids : MgrWorkerSave(id)
    \/ \E id \in Ids, st \in {"Paused", "Running", "Cancelled"} : MgrSetStatus(id, st)
    \/ \E id \in Ids, st \in {"Completed", "Cancelled"} : MgrSyncFinish(id, st)
    \/ \E id \in Ids : MgrResumeStart(id)
    \/ \E id \in Ids : MgrResumeWorkerSave(id)
    \/ \E id \in Ids, st \in {"Completed", "Failed", "Cancelled"} : MgrResumeFinish(id, st)
    \/ \E id \in Ids, st \in {"Completed", "Failed", "Cancelled"} : MgrOlderFinish(id, st)
    \/ \E id \in Ids : MgrDiscard(id)
    \/ MgrRestart
    \/ MgrQuery
    \/ MgrQueryDone

SpecMgr == InitMgr /\ [][NextMgr]_vars

(***************************************************************************)
(* C19: after discard_transfer(id) has returned there is no record of id   *)
(* in the state manager, no <id>.json on disk and no live control for id,  *)
(* and this stays so whatever workers that still run for id record later.  *)
(***************************************************************************)
C19_DiscardIsFinal ==
    \A id \in discarded :
        /\ ~states[id].present
        /\ ~stateFiles[id].present
        /\ id \notin controls

(***************************************************************************)
(* C20: get_interrupted_transfers returns exactly the in-memory records    *)
(* whose status is Paused or Failed, or Running with no live control, or   *)
(* Pending with bytes_transferred > 0, so that a transfer that is          *)
(* executing is not returned; and a transfer recorded as Failed is still   *)
(* returned after a restart of the process.                                *)
(***************************************************************************)
C20_InterruptedListing ==
    [][/\ (mpc = "idle" /\ mpc' = "listed") =>
            listed' = {id \in Ids :
                          /\ states[id].present
                          /\ \/ states[id].status \in {"Paused", "Failed"}
                             \/ states[id].status = "Running" /\ id \notin controls
                             \/ /\ states[id].status = "Pending"
                                /\ states[id].bytes_transferred > 0}
       /\ (boots' # boots) =>
            \A id \in Ids :
                (states[id].present /\ states[id].status = "Failed")
                    => (states'[id].present /\ states'[id].status = "Failed")]_vars

(***************************************************************************)
(* C34: once the recorded status of a transfer is Completed, Failed or     *)
(* Cancelled, no later pause_transfer, resume_transfer or cancel_transfer  *)
(* and no late progress callback changes it: while the process runs and    *)
(* the record is kept, the only step that changes a terminal status is the *)
(* start of resume_interrupted_transfer, which records Running.            *)
(***************************************************************************)
C34_TerminalStatusStays ==
    [][\A id \in Ids :
          (/\ states[id].present /\ is_finished(states[id])
           /\ states'[id].present /\ boots' = boots
           /\ states'[id].status # states[id].status)
              => (/\ wk'[id] = "resume" /\ wk[id] # "resume"
                  /\ states'[id].status = "Running")]_vars

(***************************************************************************)
(* C37: for any transfer id at most one execution is active at a time:     *)
(* resume_interrupted_transfer on a transfer whose sync_files or resumed   *)
(* sync is still executing does not start a second execution next to it    *)
(* and does not replace the control its workers observe.                   *)
(***************************************************************************)
C37_OneExecutionPerId ==
    \A id \in Ids : older[id] = "none"

(***************************************************************************)
(* SpecRecord: one TransferState from create_transfer on, under the calls  *)
(* the engine makes on it: the seeding and the symlink loop of sync_files, *)
(* its file workers with their progress callback, the end of sync_files,   *)
(* a crash, and resume_interrupted_transfer with its workers.  Every call  *)
(* that changes the record is followed by save_state, so that <id>.json    *)
(* holds the record as it is in memory after every step.                   *)
(***************************************************************************)
OldFrame == UNCHANGED <<copyVars, persistVars, ctlVars, treeVars,
                        wpc, upc, lostWakeup, unlinked, run, mgrVars>>

RecFrame == OldFrame /\ UNCHANGED <<deltaVars, tempVars, chanVars, volVars>>

\* transfer_state.rs 126-130 with FileTransferState::new (48-60)
add_file(r, p, size) ==
    [r EXCEPT !.total_bytes = @ + size,
              !.total_files = @ + 1,
              !.files[p] = (NewFileState @@ [total_bytes |-> size])]

\* sync_engine.rs 518-532: every entry of the scan that is not a directory
RECURSIVE AddFiles(_, _)
AddFiles(r, ps) ==
    IF ps = {} THEN r
    ELSE LET p == CHOOSE x \in ps : TRUE
         IN  AddFiles(add_file(r, p, rscan[p]), ps \ {p})

\* TransferState::update_file_progress (transfer_state.rs 132-141)
record_update_file_progress(r, p, n) ==
    IF r.files[p].tracked
    THEN LET old == r.files[p].bytes_transferred
             delta == IF n > old THEN n - old ELSE 0
         IN  [r EXCEPT !.bytes_transferred = @ + delta,
                       !.files[p] = update_file_progress(@, n)]
    ELSE r

\* TransferState::complete_file (transfer_state.rs 143-152)
record_complete_file(r, p) ==
    IF r.files[p].tracked
    THEN LET fs == r.files[p]
             remaining == IF fs.total_bytes > fs.bytes_transferred
                          THEN fs.total_bytes - fs.bytes_transferred ELSE 0
         IN  [r EXCEPT !.bytes_transferred = @ + remaining,
                       !.files[p] = complete_file(fs, fs.total_bytes),
                       !.files_completed = @ + 1]
    ELSE r

\* TransferState::fail_file (transfer_state.rs 154-161)
record_fail_file(r, p) ==
    IF r.files[p].tracked
    THEN [r EXCEPT !.files[p] = fail_file(@), !.files_failed = @ + 1]
    ELSE r

\* TransferState::skip_file (transfer_state.rs 163-169)
record_skip_file(r, p) ==
    IF r.files[p].tracked
    THEN [r EXCEPT !.files[p] = skip_file(@), !.files_skipped = @ + 1]
    ELSE r

\* SyncEngine::set_status (sync_engine.rs 1063-1074): status and error
set_status(r, st) == [r EXCEPT !.status = st]

\* sync_engine.rs 675-689 after `save_state(&state)?` of sync_file_static
\* (1099-1105, 1154-1159, 1331-1336): Ok leaves the record as it is, the Err
\* of a failed save takes the worker's Err arm, which calls fail_file
WorkerAfterSave(r, p, saved) == IF saved THEN r ELSE record_fail_file(r, p)

\* sync_engine.rs 955-963: file_count and total_size of the scan: the
\* entries that are not directories and the sum of their sizes
ScanFileCount == Cardinality(RecPaths)
ScanTotalSize == SumOver(rscan, RecPaths)

\* sync_engine.rs 512-535, 590-614: status Running, total_bytes and
\* total_files from the scan, add_file for every entry that has no record
\* yet, then the symlinks of the scan are recreated (copy_symlink may fail)
RecSeed ==
    /\ rpc = "new"
    /\ rec' = AddFiles([set_status(rec, "Running") EXCEPT
                           !.total_bytes = ScanTotalSize,
                           !.total_files = ScanFileCount],
                       {p \in RecPaths : ~rec.files[p].tracked})
    /\ \E ok \in BOOLEAN :
          linkDest' = IF ~rdry /\ ok THEN "symlink" ELSE linkDest
    /\ rpc' = "sync"
    /\ UNCHANGED <<rscan, rwork, rdone, resumes, rdry, rpub>>
    /\ RecFrame

\* sync_file_static (sync_engine.rs 1093-1161) on a regular file: the skip
\* returns, the dry-run return, or the copy starts on the source as it is now
RecWorkerBegin(p) ==
    /\ rpc = "sync" /\ rwork = NoWork
    /\ p \in RegularFiles \ rdone
    /\ \/ /\ \E saved \in BOOLEAN :
                rec' = WorkerAfterSave(record_skip_file(rec, p), p, saved)
          /\ rdone' = rdone \cup {p}
          /\ UNCHANGED rwork
       \/ /\ rdry
          /\ \E saved \in BOOLEAN :
                rec' = WorkerAfterSave(record_complete_file(rec, p), p, saved)
          /\ rdone' = rdone \cup {p}
          /\ UNCHANGED rwork
       \/ /\ ~rdry
          /\ \E len \in 1..MaxSize : rwork' = [path |-> p, copied |-> 0, len |-> len]
          /\ UNCHANGED <<rec, rdone>>
    /\ UNCHANGED <<rscan, rpc, resumes, linkDest, rdry, rpub>>
    /\ RecFrame

\* file_ops.rs 660-692 with the callback (sync_engine.rs 1272-1278): one more
\* buffer is copied and reported
RecProgress ==
    /\ rpc = "sync" /\ rwork # NoWork
    /\ rwork.copied < rwork.len
    /\ rwork' = [rwork EXCEPT !.copied = @ + 1]
    /\ rec' = record_update_file_progress(set_status(rec, "Running"),
                                          rwork.path, rwork.copied + 1)
    /\ UNCHANGED <<rscan, rpc, rdone, resumes, linkDest, rdry, rpub>>
    /\ RecFrame

\* sync_engine.rs 1304-1336, 675-689: the copy reached the end of the source
\* and was renamed into place; complete_file, then save_state, whose error
\* is the worker's error
RecCopyOk ==
    /\ rpc = "sync" /\ rwork # NoWork
    /\ rwork.copied = rwork.len
    /\ \E saved \in BOOLEAN :
          rec' = WorkerAfterSave(record_complete_file(rec, rwork.path),
                                 rwork.path, saved)
    /\ rpub' = rpub \cup {rwork.path}
    /\ rdone' = rdone \cup {rwork.path}
    /\ rwork' = NoWork
    /\ UNCHANGED <<rscan, rpc, resumes, linkDest, rdry>>
    /\ RecFrame

\* sync_engine.rs 679-688: the copy failed or was cancelled
RecCopyErr ==
    /\ rpc = "sync" /\ rwork # NoWork
    /\ rec' = record_fail_file(rec, rwork.path)
    /\ rdone' = rdone \cup {rwork.path}
    /\ rwork' = NoWork
    /\ UNCHANGED <<rscan, rpc, resumes, linkDest, rdry, rpub>>
    /\ RecFrame

\* sync_engine.rs 699-727: the workers are joined; Cancelled after a cancel,
\* Completed after the last file
RecSyncEnd(st) ==
    /\ rpc = "sync" /\ rwork = NoWork
    /\ \/ st = "Cancelled"
       \/ st = "Completed" /\ RegularFiles \subseteq rdone
    /\ rec' = set_status(rec, st)
    /\ rpc' = "ended"
    /\ UNCHANGED <<rscan, rwork, rdone, resumes, linkDest, rdry, rpub>>
    /\ RecFrame

\* the process dies during a call and starts again (transfer_state.rs 213-231)
RecCrash ==
    /\ rpc \in {"sync", "resume"}
    /\ rpc' = "ended"
    /\ rwork' = NoWork
    /\ UNCHANGED <<rec, rscan, rdone, resumes, linkDest, rdry, rpub>>
    /\ RecFrame

\* sync_engine.rs 737-803: resume_interrupted_transfer: status Running, the
\* entries of the scan that are not directories and not Completed
RecResumeBegin ==
    /\ rpc = "ended"
    /\ resumes < MaxResumes
    /\ rec.status \in {"Running", "Failed", "Cancelled"}
    /\ resumes' = resumes + 1
    /\ LET completed == {p \in RecPaths : rec.files[p].status = "Completed"} IN
          IF completed = RecPaths
          THEN /\ rec' = set_status(rec, "Completed")
               /\ UNCHANGED <<rpc, rdone>>
          ELSE /\ rec' = set_status(rec, "Running")
               /\ rdone' = completed
               /\ rpc' = "resume"
    /\ UNCHANGED <<rscan, rwork, linkDest, rdry, rpub>>
    /\ RecFrame

\* sync_engine.rs 826-891: a worker of the resumed sync opens the source path
\* and the destination path (following a symlink at either) and copies
RecResumeWorker(p, ok) ==
    /\ rpc = "resume"
    /\ p \in RecPaths \ rdone
    /\ rdone' = rdone \cup {p}
    /\ IF ok
       THEN /\ rec' = record_complete_file(rec, p)
            /\ rpub' = rpub \cup {p}
            /\ linkDest' = IF p \in Symlinks
                           THEN (IF linkDest = "absent" THEN "regular"
                                 ELSE IF linkDest = "symlink" THEN "written through"
                                 ELSE linkDest)
                           ELSE linkDest
       ELSE /\ rec' = record_fail_file(rec, p)
            /\ UNCHANGED <<linkDest, rpub>>
    /\ UNCHANGED <<rscan, rwork, rpc, resumes, rdry>>
    /\ RecFrame

\* sync_engine.rs 903-916: the final status of the resumed sync
RecResumeEnd(cancel) ==
    /\ rpc = "resume"
    /\ cancel \/ rdone = RecPaths
    /\ rec' = set_status(rec, IF cancel THEN "Cancelled"
                              ELSE IF rec.files_failed > 0 THEN "Failed"
                              ELSE "Completed")
    /\ rpc' = "ended"
    /\ UNCHANGED <<rscan, rwork, rdone, resumes, linkDest, rdry, rpub>>
    /\ RecFrame

InitRecord ==
    /\ rec = NewRecord
    /\ rscan \in [RecPaths -> 1..MaxSize]
    /\ rwork = NoWork
    /\ rpc = "new"
    /\ rdone = {}
    /\ resumes = 0
    /\ linkDest = "absent"
    /\ rdry \in BOOLEAN
    /\ rpub = {}
    /\ DeltaIdle
    /\ TempIdle
    /\ ChanIdle
    /\ VolIdle
    /\ wpc = "proceeded" /\ upc = "idle" /\ lostWakeup = FALSE
    /\ unlinked = {} /\ run = 1
    /\ MgrIdle
    /\ CopyIdle
    /\ PersistIdle
    /\ CtlIdle
    /\ TreeIdle

NextRecord ==
    \/ RecSeed
    \/ \E p \in RecPaths : RecWorkerBegin(p)
    \/ RecProgress
    \/ RecCopyOk
    \/ RecCopyErr
    \/ \E st \in {"Completed", "Cancelled"} : RecSyncEnd(st)
    \/ RecCrash
    \/ RecResumeBegin
    \/ \E p \in RecPaths, ok \in BOOLEAN : RecResumeWorker(p, ok)
    \/ \E cancel \in BOOLEAN : RecResumeEnd(cancel)

SpecRecord == InitRecord /\ [][NextRecord]_vars

(***************************************************************************)
(* C21: in every reachable state every file record whose status is         *)
(* Completed has bytes_transferred = total_bytes, whichever of             *)
(* complete_file, skip_file or a progress update produced the state.       *)
(***************************************************************************)
C21_CompletedFileIsWhole ==
    \A p \in RecPaths :
        (rec.files[p].tracked /\ rec.files[p].status = "Completed")
            => rec.files[p].bytes_transferred = rec.files[p].total_bytes

(***************************************************************************)
(* C22: in every reachable state the record's bytes_transferred equals the *)
(* sum of bytes_transferred over its file records.                         *)
(***************************************************************************)
C22_BytesAreTheSum ==
    rec.bytes_transferred =
        SumOver([p \in RecPaths |-> rec.files[p].bytes_transferred], RecPaths)

(***************************************************************************)
(* C23: in every reachable state files_completed + files_failed +          *)
(* files_skipped <= total_files, across sync_files, cancellation and any   *)
(* number of resume_interrupted_transfer runs of the transfer.             *)
(***************************************************************************)
C23_CountersWithinTotal ==
    rec.files_completed + rec.files_failed + rec.files_skipped <= rec.total_files

(***************************************************************************)
(* C24: whenever the status of the record is Completed, Failed or          *)
(* Cancelled, in memory and in its persisted file, completed_at is set.    *)
(***************************************************************************)
C24_CompletedAtSet ==
    rec.status \in {"Completed", "Failed", "Cancelled"} => rec.completed_at # "None"

(***************************************************************************)
(* C28: with follow_symlinks = false a symlink of the source is only ever  *)
(* recreated at the destination as a symlink; the content of its target is *)
(* never written to the destination as a regular file, in sync_files and   *)
(* in a resumed sync.                                                      *)
(***************************************************************************)
C28_SymlinkStaysSymlink == linkDest \in {"absent", "symlink"}

(***************************************************************************)
(* C31: a failure of save_state during a file's processing does not make   *)
(* the file fail: in every reachable state a file whose bytes were         *)
(* completely published at the destination is not marked Failed in the     *)
(* record (fail_file, which marks it, is also what counts it in            *)
(* files_failed next to its count in files_completed).                     *)
(***************************************************************************)
C31_SaveFailureKeepsFile ==
    \A p \in rpub : rec.files[p].status # "Failed"

(***************************************************************************)
(* C39: after sync_files has seeded the record (no exclusions) total_files *)
(* equals the number of non-directory entries of the manifest and          *)
(* total_bytes the sum of their sizes, so that bytes_transferred reaches   *)
(* total_bytes exactly when every file is complete.                        *)
(***************************************************************************)
C39_TotalsAreTheManifest ==
    rpc # "new" =>
        /\ rec.total_files = ScanFileCount
        /\ rec.total_bytes = ScanTotalSize

(***************************************************************************)
(* C40: in every reachable state files_failed equals the number of file    *)
(* records whose status is Failed, after any sequence of sync, failure and *)
(* resume; so a resume in which every remaining file is copied ends        *)
(* Completed, not Failed.                                                  *)
(***************************************************************************)
C40_FailedCountsFailedFiles ==
    rec.files_failed =
        Cardinality({p \in RecPaths :
                        rec.files[p].tracked /\ rec.files[p].status = "Failed"})

(***************************************************************************)
(* SpecDelta: detect_delta_detailed and the decision of sync_file_static   *)
(* on one file, for every source entry, destination file and combination   *)
(* of skip_existing, overwrite_newer, overwrite_older and                  *)
(* conflict_resolution (dry_run = false).                                  *)
(***************************************************************************)
DeltaFrame == OldFrame /\ UNCHANGED <<recVars, tempVars, chanVars, volVars>>

\* file_ops.rs 572-607
detect_delta_detailed(i) ==
    IF ~i.exists
    THEN [status |-> "New", source_newer |-> TRUE, source_older |-> FALSE,
          size_differs |-> FALSE]
    ELSE LET source_newer == i.smtime > i.dmtime
             source_older == i.smtime < i.dmtime
             size_differs == i.ssize # i.dsize
         IN  [status |-> IF size_differs \/ source_newer THEN "Modified"
                         ELSE "Unchanged",
              source_newer |-> source_newer,
              source_older |-> source_older,
              size_differs |-> size_differs]

\* mutant of should_overwrite: the overwrite flags are not looked at
should_overwrite_by_resolution(i, d) ==
    i.conflict_resolution \in {"Overwrite", "Rename"}

\* sync_engine.rs 1118-1130
should_overwrite(i, d) ==
    IF i.overwrite_newer /\ i.overwrite_older THEN TRUE
    ELSE IF i.overwrite_newer THEN d.source_newer \/ d.size_differs
    ELSE IF i.overwrite_older THEN d.source_older
    ELSE i.conflict_resolution \in {"Overwrite", "Rename"}

\* sync_engine.rs 1096-1150: skip, or copy to dest_path, or copy to the
\* generated conflict name
FileDecision(i, d) ==
    IF d.status = "Unchanged" THEN "skip"
    ELSE IF d.status = "Modified" /\ i.skip_existing THEN "skip"
    ELSE IF d.status = "Modified" /\ ~should_overwrite(i, d) THEN "skip"
    ELSE IF /\ d.status = "Modified"
            /\ i.conflict_resolution = "Rename"
            /\ ~i.overwrite_newer /\ ~i.overwrite_older
         THEN "copy to conflict name"
    ELSE IF d.status = "Modified" THEN "overwrite"
    ELSE "create"

\* sync_engine.rs 1096
DeltaDetect ==
    /\ qpc = "input"
    /\ ddelta' = detect_delta_detailed(din)
    /\ qpc' = "delta"
    /\ UNCHANGED <<din, daction>>
    /\ DeltaFrame

\* sync_engine.rs 1098-1150
DeltaDecide ==
    /\ qpc = "delta"
    /\ daction' = FileDecision(din, ddelta)
    /\ qpc' = "decided"
    /\ UNCHANGED <<din, ddelta>>
    /\ DeltaFrame

InitDelta ==
    /\ din \in DeltaInputs
    /\ ddelta = NoDelta
    /\ daction = "none"
    /\ qpc = "input"
    /\ RecIdle
    /\ TempIdle
    /\ ChanIdle
    /\ VolIdle
    /\ wpc = "proceeded" /\ upc = "idle" /\ lostWakeup = FALSE
    /\ unlinked = {} /\ run = 1
    /\ MgrIdle
    /\ CopyIdle
    /\ PersistIdle
    /\ CtlIdle
    /\ TreeIdle

NextDelta ==
    \/ DeltaDetect
    \/ DeltaDecide

SpecDelta == InitDelta /\ [][NextDelta]_vars

(***************************************************************************)
(* C25: detect_delta_detailed returns New (source_newer = true,            *)
(* source_older = false, size_differs = false) iff the destination file is *)
(* absent; Modified iff it exists and the sizes differ or the source mtime *)
(* is later; and otherwise Unchanged with all three flags false.           *)
(***************************************************************************)
C25_DeltaTable ==
    qpc \in {"delta", "decided"} =>
        /\ (ddelta.status = "New") <=> ~din.exists
        /\ (ddelta.status = "New") =>
              (ddelta.source_newer /\ ~ddelta.source_older /\ ~ddelta.size_differs)
        /\ (ddelta.status = "Modified") <=>
              (din.exists /\ (din.ssize # din.dsize \/ din.smtime > din.dmtime))
        /\ (ddelta.status = "Unchanged") =>
              (~ddelta.source_newer /\ ~ddelta.source_older /\ ~ddelta.size_differs)

(***************************************************************************)
(* C26: with overwrite_older = true (skip_existing and overwrite_newer     *)
(* unset) every existing destination file whose source mtime is strictly   *)
(* older than the destination mtime is overwritten, whether or not the     *)
(* sizes differ.                                                           *)
(***************************************************************************)
C26_OverwriteOlder ==
    (/\ qpc = "decided"
     /\ din.overwrite_older /\ ~din.skip_existing /\ ~din.overwrite_newer
     /\ din.exists /\ din.smtime < din.dmtime)
        => daction = "overwrite"

TempFrame == OldFrame /\ UNCHANGED <<recVars, deltaVars, chanVars, volVars>>

\* file_ops.rs 859-865: a name that ends with the temp extension
IsTempName(n) == n[Len(n)] = TEMP_FILE_EXTENSION

\* sync_engine.rs 478-485: a sync_files call begins with cleanup_partial_files
\* on the destination tree (file_ops.rs 845-870)
TempSyncStart(y) ==
    /\ tsync[y] = "idle"
    /\ tsync' = [tsync EXCEPT ![y] = "running"]
    /\ tfs' = [n \in TreeNames |-> IF IsTempName(n) THEN Absent ELSE tfs[n]]
    /\ UNCHANGED tcp
    /\ TempFrame

\* file_ops.rs 794-808: a worker of sync y starts the atomic copy of a file
\* no other worker of y has: cleanup_temp_files(dest), then the temp file is
\* created (File::create truncates what is there)
TempCopyStart(c, y, p) ==
    /\ tsync[y] = "running"
    /\ tcp[c] = NoCopier
    /\ \A d \in Copiers : ~(tcp[d].sync = y /\ tcp[d].path = p)
    /\ tcp' = [tcp EXCEPT ![c] = [sync |-> y, path |-> p]]
    /\ tfs' = [tfs EXCEPT ![get_temp_path(p)] = [kind |-> "temp", by |-> c, of |-> p]]
    /\ UNCHANGED tsync
    /\ TempFrame

\* file_ops.rs 810-828: the copy is through; rename(temp, dest) publishes the
\* file at the temp path, or fails when there is none
TempCopyRename(c) ==
    /\ tcp[c] # NoCopier
    /\ LET p == tcp[c].path
           t == get_temp_path(p)
       IN  IF tfs[t].kind = "absent"
           THEN UNCHANGED tfs
           ELSE tfs' = [tfs EXCEPT ![p] = [kind |-> "published", by |-> 0, of |-> p],
                                   ![t] = Absent]
    /\ tcp' = [tcp EXCEPT ![c] = NoCopier]
    /\ UNCHANGED tsync
    /\ TempFrame

\* file_ops.rs 830-839: the copy failed; remove_file(temp)
TempCopyFail(c) ==
    /\ tcp[c] # NoCopier
    /\ tfs' = [tfs EXCEPT ![get_temp_path(tcp[c].path)] = Absent]
    /\ tcp' = [tcp EXCEPT ![c] = NoCopier]
    /\ UNCHANGED tsync
    /\ TempFrame

\* sync_engine.rs 694-727: the workers of the sync are joined and it returns
TempSyncEnd(y) ==
    /\ tsync[y] = "running"
    /\ \A c \in Copiers : tcp[c].sync # y
    /\ tsync' = [tsync EXCEPT ![y] = "idle"]
    /\ UNCHANGED <<tfs, tcp>>
    /\ TempFrame

InitTemp ==
    /\ tfs \in [TreeNames -> {Absent} \cup
                             {[kind |-> "published", by |-> 0, of |-> n] : n \in SourceNames}]
    /\ \A n \in TreeNames : tfs[n].kind = "published" => tfs[n].of = n
    /\ tcp = [c \in Copiers |-> NoCopier]
    /\ tsync = [y \in SyncIds |-> "idle"]
    /\ RecIdle
    /\ DeltaIdle
    /\ ChanIdle
    /\ VolIdle
    /\ wpc = "proceeded" /\ upc = "idle" /\ lostWakeup = FALSE
    /\ unlinked = {} /\ run = 1
    /\ MgrIdle
    /\ CopyIdle
    /\ PersistIdle
    /\ CtlIdle
    /\ TreeIdle

NextTemp ==
    \/ \E y \in SyncIds : TempSyncStart(y)
    \/ \E c \in Copiers, y \in SyncIds, p \in SourceNames : TempCopyStart(c, y, p)
    \/ \E c \in Copiers : TempCopyRename(c)
    \/ \E c \in Copiers : TempCopyFail(c)
    \/ \E y \in SyncIds : TempSyncEnd(y)

SpecTemp == InitTemp /\ [][NextTemp]_vars

(***************************************************************************)
(* C29: the temp paths of any two copies that run at the same time differ, *)
(* and no step removes or overwrites a temp file another copy is still     *)
(* writing, nor a published destination file of another source file.       *)
(***************************************************************************)
C29_TempFilesDoNotCollide ==
    [][/\ \A c, d \in Copiers :
             (c # d /\ tcp'[c] # NoCopier /\ tcp'[d] # NoCopier)
                => get_temp_path(tcp'[c].path) # get_temp_path(tcp'[d].path)
       /\ \A c \in Copiers :
             (tcp[c] # NoCopier /\ tcp'[c] = tcp[c]
                /\ tfs[get_temp_path(tcp[c].path)].by = c)
                => tfs'[get_temp_path(tcp[c].path)] = tfs[get_temp_path(tcp[c].path)]
       /\ \A n \in TreeNames :
             (tfs[n].kind = "published" /\ tfs'[n] # tfs[n])
                => \E c \in Copiers : tcp[c].path = n /\ tcp'[c] = NoCopier]_vars

(***************************************************************************)
(* SpecChan: the copy worker of one file with its progress callback, the   *)
(* bounded channel of progress events, the task that drains it, and a      *)
(* caller of pause_transfer and resume_transfer, whose set_status takes    *)
(* the write lock of the transfer record.                                  *)
(***************************************************************************)
ChanFrame == OldFrame /\ UNCHANGED <<recVars, deltaVars, tempVars, volVars>>

\* file_ops.rs 660-692, sync_engine.rs 1250-1256: a buffer is copied and the
\* callback is called; it leaves its `while control.is_paused()` loop when
\* the flag is clear (the transfer is not cancelled)
ChanCopyBuffer ==
    /\ cbpc = "copy"
    /\ ~cpaused
    /\ cbpc' = "lock"
    /\ UNCHANGED <<chanLen, rlock, cpaused, cstatus, upos>>
    /\ ChanFrame

\* sync_engine.rs 1272-1278: state_arc.write(), status Running,
\* update_file_progress, save_state; the guard lives to the end of the block
ChanLock ==
    /\ cbpc = "lock"
    /\ rlock = "none"
    /\ rlock' = "worker"
    /\ cstatus' = "Running"
    /\ cbpc' = "send"
    /\ UNCHANGED <<chanLen, cpaused, upos>>
    /\ ChanFrame

\* sync_engine.rs 1298-1299: progress_tx.blocking_send(event) returns once the
\* channel has room; the block ends and the guard is dropped
ChanSend ==
    /\ cbpc = "send"
    /\ chanLen < PROGRESS_CHANNEL_CAPACITY
    /\ chanLen' = chanLen + 1
    /\ rlock' = "none"
    /\ cbpc' = "copy"
    /\ UNCHANGED <<cpaused, cstatus, upos>>
    /\ ChanFrame

\* file_ops.rs 660-663: the source is at its end
ChanCopyEnd ==
    /\ cbpc = "copy"
    /\ cbpc' = "done"
    /\ UNCHANGED <<chanLen, rlock, cpaused, cstatus, upos>>
    /\ ChanFrame

\* sync_engine.rs 1220-1228: the emit task receives an event and emits it
ChanRecv ==
    /\ chanLen > 0
    /\ chanLen' = chanLen - 1
    /\ UNCHANGED <<cbpc, rlock, cpaused, cstatus, upos>>
    /\ ChanFrame

\* sync_engine.rs 300-303: pause_transfer sets the flag of the control
ChanPause ==
    /\ upos = "idle"
    /\ cpaused' = TRUE
    /\ upos' = "pause"
    /\ UNCHANGED <<chanLen, cbpc, rlock, cstatus>>
    /\ ChanFrame

\* sync_engine.rs 307-310: resume_transfer clears the flag of the control
ChanResume ==
    /\ upos = "idle"
    /\ cpaused' = FALSE
    /\ upos' = "resume"
    /\ UNCHANGED <<chanLen, cbpc, rlock, cstatus>>
    /\ ChanFrame

\* sync_engine.rs 1069-1070: set_status of the caller takes the write lock
\* of the record
ChanOtherLock ==
    /\ upos \in {"pause", "resume"}
    /\ rlock = "none"
    /\ rlock' = "other"
    /\ UNCHANGED <<chanLen, cbpc, cpaused, cstatus, upos>>
    /\ ChanFrame

\* sync_engine.rs 1070-1074: writes the status, saves, drops the lock; the
\* call returns Ok
ChanOtherUnlock ==
    /\ rlock = "other"
    /\ cstatus' = IF upos = "pause" THEN "Paused" ELSE "Running"
    /\ rlock' = "none"
    /\ upos' = "idle"
    /\ UNCHANGED <<chanLen, cbpc, cpaused>>
    /\ ChanFrame

InitChan ==
    /\ chanLen = 0
    /\ cbpc = "copy"
    /\ rlock = "none"
    /\ cpaused = FALSE
    /\ cstatus = "Running"
    /\ upos = "idle"
    /\ RecIdle
    /\ DeltaIdle
    /\ TempIdle
    /\ VolIdle
    /\ wpc = "proceeded" /\ upc = "idle" /\ lostWakeup = FALSE
    /\ unlinked = {} /\ run = 1
    /\ MgrIdle
    /\ CopyIdle
    /\ PersistIdle
    /\ CtlIdle
    /\ TreeIdle

NextChan ==
    \/ ChanCopyBuffer
    \/ ChanLock
    \/ ChanSend
    \/ ChanCopyEnd
    \/ ChanRecv
    \/ ChanPause
    \/ ChanResume
    \/ ChanOtherLock
    \/ ChanOtherUnlock

SpecChan == InitChan /\ [][NextChan]_vars

(***************************************************************************)
(* C30: when the progress channel of a file copy is full the worker drops  *)
(* the new event and goes on copying: the callback never has to wait for   *)
(* room in the channel, and never waits while it holds the write lock of   *)
(* the transfer record.                                                    *)
(***************************************************************************)
C30_SendNeverBlocks ==
    (cbpc = "send" /\ rlock = "worker") => chanLen < PROGRESS_CHANNEL_CAPACITY

(***************************************************************************)
(* C35: while the paused flag of a transfer is set (pause_transfer has     *)
(* returned, the transfer is not cancelled) its recorded status is Paused: *)
(* a progress callback that runs concurrently with pause_transfer does not *)
(* overwrite the status with Running.                                      *)
(***************************************************************************)
C35_PausedIsRecorded ==
    (cpaused /\ upos = "idle") => cstatus = "Paused"

(***************************************************************************)
(* SpecVol: the volume watcher.  Transfers are registered and unregistered *)
(* with their source and destination path (lib.rs 118-135), and the poll   *)
(* of the watcher rescans the volumes and probes the accessibility of      *)
(* every known volume that has a registered transfer.                      *)
(***************************************************************************)
VolFrame == OldFrame /\ UNCHANGED <<recVars, deltaVars, tempVars, chanVars>>

\* Path::starts_with: the mount point is a prefix of the path's components
starts_with(path, mount) ==
    /\ Len(mount) <= Len(path)
    /\ SubSeq(path, 1, Len(mount)) = mount

\* TransferVolumeMap::find_volume_for_path (volume_watcher.rs 201-207): the
\* known volume with the longest mount point that is a prefix of the path
find_volume_for_path(path, volumes) ==
    LET matching == {v \in volumes : starts_with(path, v)} IN
    IF matching = {} THEN {}
    ELSE {CHOOSE v \in matching : \A w \in matching : Len(w) <= Len(v)}

\* HashMap::insert
MapInsert(map, k, v) == [x \in DOMAIN map \cup {k} |-> IF x = k THEN v ELSE map[x]]

\* HashMap::remove
MapRemove(map, k) == [x \in DOMAIN map \ {k} |-> map[x]]

\* TransferVolumeMap::get_affected_transfers (volume_watcher.rs 194-199)
affected_transfers(v2t, mount_point) ==
    IF mount_point \in DOMAIN v2t THEN v2t[mount_point] ELSE {}

get_affected_transfers(mount_point) ==
    affected_transfers(volume_to_transfers, mount_point)

\* TransferVolumeMap::register_transfer (volume_watcher.rs 162-177)
VolRegister(id, src, dst) ==
    /\ LET volumes_used == find_volume_for_path(src, known_volumes)
                              \cup find_volume_for_path(dst, known_volumes)
       IN  /\ volume_to_transfers' =
                  [m \in DOMAIN volume_to_transfers \cup volumes_used |->
                      IF m \in volumes_used
                      THEN affected_transfers(volume_to_transfers, m) \cup {id}
                      ELSE volume_to_transfers[m]]
           /\ transfer_to_volumes' = MapInsert(transfer_to_volumes, id, volumes_used)
    /\ UNCHANGED <<known_volumes, vprobe, vevents>>
    /\ VolFrame

\* TransferVolumeMap::unregister_transfer (volume_watcher.rs 180-191)
VolUnregister(id) ==
    /\ id \in DOMAIN transfer_to_volumes
    /\ LET volumes == transfer_to_volumes[id]
           emptied == {m \in volumes \cap DOMAIN volume_to_transfers :
                          volume_to_transfers[m] \ {id} = {}}
       IN  volume_to_transfers' =
              [m \in DOMAIN volume_to_transfers \ emptied |->
                  IF m \in volumes THEN volume_to_transfers[m] \ {id}
                  ELSE volume_to_transfers[m]]
    /\ transfer_to_volumes' = MapRemove(transfer_to_volumes, id)
    /\ UNCHANGED <<known_volumes, vprobe, vevents>>
    /\ VolFrame

\* std::io::Error::kind of the errno of a failed read_dir
io_error_kind(errno) ==
    IF errno = "EACCES" THEN "PermissionDenied"
    ELSE IF errno = "ENOENT" THEN "NotFound"
    ELSE "Other"

\* VolumeWatcher::can_access_volume (volume_watcher.rs 330-348)
can_access_volume(read_dir) ==
    IF read_dir = "Ok" THEN TRUE
    ELSE IF read_dir \in {"EIO", "ENODEV"} THEN FALSE
    ELSE io_error_kind(read_dir) # "PermissionDenied"

\* VolumeWatcher::poll_volumes (volume_watcher.rs 544-603) with
\* check_volume_accessibility (606-643): the scan replaces the known
\* volumes, then every known volume with a transfer is probed
VolPoll(current, read_dir) ==
    /\ known_volumes' = current
    /\ LET volumes_to_check == {m \in current : get_affected_transfers(m) # {}} IN
          /\ vprobe' = [m \in Mounts |->
                           IF m \in volumes_to_check THEN read_dir[m] ELSE "unchecked"]
          /\ vevents' = {m \in volumes_to_check : ~can_access_volume(read_dir[m])}
    /\ UNCHANGED <<transfer_to_volumes, volume_to_transfers>>
    /\ VolFrame

InitVol ==
    /\ known_volumes \in SUBSET Mounts
    /\ transfer_to_volumes = <<>>
    /\ volume_to_transfers = <<>>
    /\ vprobe = [m \in Mounts |-> "unchecked"]
    /\ vevents = {}
    /\ RecIdle
    /\ DeltaIdle
    /\ TempIdle
    /\ ChanIdle
    /\ wpc = "proceeded" /\ upc = "idle" /\ lostWakeup = FALSE
    /\ unlinked = {} /\ run = 1
    /\ MgrIdle
    /\ CopyIdle
    /\ PersistIdle
    /\ CtlIdle
    /\ TreeIdle

NextVol ==
    \/ \E id \in Ids, src \in VolPaths, dst \in VolPaths : VolRegister(id, src, dst)
    \/ \E id \in Ids : VolUnregister(id)
    \/ \E current \in SUBSET Mounts, read_dir \in [Mounts -> ReadDirResults] :
          VolPoll(current, read_dir)

SpecVol == InitVol /\ [][NextVol]_vars

(***************************************************************************)
(* C32: after any sequence of register_transfer and unregister_transfer    *)
(* calls, get_affected_transfers(m) returns exactly the ids that are       *)
(* currently registered with a path on the mount point m; an id that is    *)
(* not registered (never registered, or unregistered since) is returned    *)
(* for no mount point, also when it had been registered more than once     *)
(* with paths on different volumes.                                        *)
(***************************************************************************)
C32_AffectedAreRegistered ==
    \A m \in Mounts :
        get_affected_transfers(m) =
            {id \in DOMAIN transfer_to_volumes : m \in transfer_to_volumes[id]}

(***************************************************************************)
(* C33: the accessibility probe of a volume with active transfers emits an *)
(* Inaccessible event when read_dir on the mount point failed with EIO or  *)
(* ENODEV, and emits none when read_dir failed with EACCES.                *)
(***************************************************************************)
C33_ProbeByErrno ==
    \A m \in Mounts :
        /\ vprobe[m] \in {"EIO", "ENODEV"} => m \in vevents
        /\ vprobe[m] = "EACCES" => m \notin vevents

====
